---- MODULE Spec2Model ----
(***************************************************************************)
(* The grocery-list parser of the ordering application: the voice          *)
(* assistant (AudioAssistant.handleVoiceCommand) and the chat handler      *)
(* (CustomerApp.handleChatSubmit).  A text is a sequence of one-character  *)
(* strings, so that tokenizing, singularizing, splitting and parsing a     *)
(* number are computed character by character, as the code computes them.  *)
(***************************************************************************)
EXTENDS Integers, Sequences, FiniteSets, TLC

(***************************************************************************)
(* Characters and the JavaScript string primitives the parsers use.        *)
(***************************************************************************)
LowerChars == <<"a", "b", "c", "d", "e", "f", "g", "h", "i", "j", "k", "l", "m",
                "n", "o", "p", "q", "r", "s", "t", "u", "v", "w", "x", "y", "z">>

UpperChars == <<"A", "B", "C", "D", "E", "F", "G", "H", "I", "J", "K", "L", "M",
                "N", "O", "P", "Q", "R", "S", "T", "U", "V", "W", "X", "Y", "Z">>

DigitChars == <<"0", "1", "2", "3", "4", "5", "6", "7", "8", "9">>

Range(s) == {s[i] : i \in 1..Len(s)}

Min(S) == CHOOSE x \in S : \A y \in S : x <= y

LowerSet == Range(LowerChars)

UpperSet == Range(UpperChars)

DigitSet == Range(DigitChars)

IsLower(c) == c \in LowerSet

IsUpper(c) == c \in UpperSet

\* \d
IsDigit(c) == c \in DigitSet

\* \s (the texts of the model hold no other white space than the blank)
IsSpace(c) == c = " "

\* \w, the class that decides \b
IsWordChar(c) == IsLower(c) \/ IsUpper(c) \/ IsDigit(c) \/ c = "_"

IndexOf(s, c) == CHOOSE i \in 1..Len(s) : s[i] = c

\* String.prototype.toLowerCase
toLowerCase(text) ==
    [i \in 1..Len(text) |->
        IF IsUpper(text[i]) THEN LowerChars[IndexOf(UpperChars, text[i])] ELSE text[i]]

\* text.slice(0, Len(text) - n)
DropLast(text, n) == SubSeq(text, 1, Len(text) - n)

\* String.prototype.endsWith
endsWith(text, suffix) ==
    /\ Len(suffix) <= Len(text)
    /\ SubSeq(text, Len(text) - Len(suffix) + 1, Len(text)) = suffix

\* String.prototype.includes
includes(text, piece) ==
    \E i \in 1..(Len(text) - Len(piece) + 1) : SubSeq(text, i, i + Len(piece) - 1) = piece

\* String.prototype.trim
trim(text) ==
    LET keep == {i \in 1..Len(text) : ~IsSpace(text[i])}
    IN  IF keep = {} THEN <<>>
        ELSE SubSeq(text, CHOOSE i \in keep : \A j \in keep : i <= j,
                          CHOOSE i \in keep : \A j \in keep : j <= i)

\* text.split(/\s+/): the pieces between the runs of white space, the empty
\* pieces at the two ends included
SplitWs(text) ==
    LET starts == {i \in 1..Len(text) :
                      ~IsSpace(text[i]) /\ (i = 1 \/ IsSpace(text[i - 1]))}
        ends   == {i \in 1..Len(text) :
                      ~IsSpace(text[i]) /\ (i = Len(text) \/ IsSpace(text[i + 1]))}
        Nth(S, k) == CHOOSE x \in S : Cardinality({y \in S : y <= x}) = k
        words  == [k \in 1..Cardinality(starts) |-> SubSeq(text, Nth(starts, k), Nth(ends, k))]
    IN  (IF text = <<>> \/ IsSpace(text[1]) THEN <<<<>>>> ELSE <<>>)
            \o words
            \o (IF text # <<>> /\ IsSpace(text[Len(text)]) THEN <<<<>>>> ELSE <<>>)

\* text.split(sep) for a non-empty string sep: cut at the occurrences of sep,
\* leftmost first, not overlapping
RECURSIVE SplitLitFrom(_, _, _)
SplitLitFrom(text, sep, start) ==
    LET found == {i \in start..(Len(text) - Len(sep) + 1) :
                     SubSeq(text, i, i + Len(sep) - 1) = sep}
    IN  IF found = {} THEN <<SubSeq(text, start, Len(text))>>
        ELSE <<SubSeq(text, start, Min(found) - 1)>>
                 \o SplitLitFrom(text, sep, Min(found) + Len(sep))

SplitLit(text, sep) == SplitLitFrom(text, sep, 1)

\* parseInt of a run of decimal digits
RECURSIVE parseInt(_)
parseInt(digits) ==
    IF digits = <<>> THEN 0
    ELSE 10 * parseInt(DropLast(digits, 1)) + (IndexOf(DigitChars, digits[Len(digits)]) - 1)

\* the end of the run of digits that starts at text[p]
RECURSIVE DigitRunEnd(_, _)
DigitRunEnd(text, p) ==
    IF p < Len(text) /\ IsDigit(text[p + 1]) THEN DigitRunEnd(text, p + 1) ELSE p

(***************************************************************************)
(* Tokenizing, the same in both components but for the digits.             *)
(***************************************************************************)
STOP_WORDS ==
    { <<"f", "r", "e", "s", "h">>,
      <<"o", "r", "g", "a", "n", "i", "c">>,
      <<"w", "h", "o", "l", "e">>,
      <<"s", "w", "e", "e", "t">>,
      <<"s", "o", "m", "e">>,
      <<"a", "d", "d">>,
      <<"g", "e", "t">>,
      <<"n", "e", "e", "d">>,
      <<"w", "a", "n", "t">>,
      <<"p", "l", "e", "a", "s", "e">>,
      <<"a">>,
      <<"a", "n">>,
      <<"t", "h", "e">>,
      <<"a", "n", "d">>,
      <<"k", "g">>,
      <<"d", "o", "z", "e", "n">>,
      <<"c", "u", "p">>,
      <<"c", "u", "p", "s">>,
      <<"l", "i", "t", "r", "e">>,
      <<"l", "i", "t", "e", "r">>,
      <<"p", "e", "r">> }

singularize(w) ==
    IF endsWith(w, <<"i", "e", "s">>) THEN Append(DropLast(w, 3), "y")
    ELSE IF endsWith(w, <<"e", "s">>) THEN DropLast(w, 2)
    ELSE IF endsWith(w, <<"s">>) /\ Len(w) > 3 THEN DropLast(w, 1)
    ELSE w

MapSeq(Op(_), s) == [i \in 1..Len(s) |-> Op(s[i])]

KeepToken(t) == t # <<>> /\ t \notin STOP_WORDS

\* AudioAssistant: .replace(/[^a-z\s]/g, ' ')
VoiceClean(text) ==
    [i \in 1..Len(text) |-> IF IsLower(text[i]) \/ IsSpace(text[i]) THEN text[i] ELSE " "]

\* CustomerApp: .replace(/[^a-z\s\d]/g, ' ')
ChatClean(text) ==
    [i \in 1..Len(text) |->
        IF IsLower(text[i]) \/ IsSpace(text[i]) \/ IsDigit(text[i]) THEN text[i] ELSE " "]

VoiceTokenize(text) ==
    SelectSeq(MapSeq(singularize, SplitWs(VoiceClean(toLowerCase(text)))), KeepToken)

ChatTokenize(text) ==
    SelectSeq(MapSeq(singularize, SplitWs(ChatClean(toLowerCase(text)))), KeepToken)

(***************************************************************************)
(* Products and scoring.  A product is [id, name, category]; the fields    *)
(* the parsers never read (price, unit, stock, image) are left out.        *)
(***************************************************************************)
\* the score loop: nameTokens.forEach(t => { if (partTokens.has(t)) score += 1; })
Score(nameTokens, tokens) == Cardinality({t \in nameTokens : t \in tokens})

\* Array.prototype.sort((a,b) => b.score - a.score): a stable sort (ES2019),
\* here by insertion, every element going behind those of the same score
\* InsertByScore with the element going before those of the same score
RECURSIVE InsertByScoreTiesLast(_, _)
InsertByScoreTiesLast(sorted, e) ==
    IF sorted = <<>> THEN <<e>>
    ELSE IF Head(sorted).score > e.score
         THEN <<Head(sorted)>> \o InsertByScoreTiesLast(Tail(sorted), e)
         ELSE <<e>> \o sorted

RECURSIVE InsertByScore(_, _)
InsertByScore(sorted, e) ==
    IF sorted = <<>> THEN <<e>>
    ELSE IF Head(sorted).score >= e.score
         THEN <<Head(sorted)>> \o InsertByScore(Tail(sorted), e)
         ELSE <<e>> \o sorted

RECURSIVE SortByScoreDesc(_)
SortByScoreDesc(scored) ==
    IF scored = <<>> THEN <<>>
    ELSE InsertByScore(SortByScoreDesc(DropLast(scored, 1)), scored[Len(scored)])

NonEmpty(t) == t # <<>>

\* /^\d+$/.test(token)
AllDigits(t) == t # <<>> /\ \A i \in 1..Len(t) : IsDigit(t[i])

NotAllDigits(t) == ~AllDigits(t)

(***************************************************************************)
(* AudioAssistant.handleVoiceCommand: parseMultipleItems.                  *)
(***************************************************************************)
voiceSeparators ==
    << <<" ", "a", "n", "d", " ">>,
       <<",", " ">>,
       <<" ", "p", "l", "u", "s", " ">>,
       <<" ", "w", "i", "t", "h", " ">> >>

voiceQuantityWords ==
    << <<"o", "n", "e">>,
       <<"t", "w", "o">>,
       <<"t", "h", "r", "e", "e">>,
       <<"f", "o", "u", "r">>,
       <<"f", "i", "v", "e">>,
       <<"s", "i", "x">>,
       <<"s", "e", "v", "e", "n">>,
       <<"e", "i", "g", "h", "t">>,
       <<"n", "i", "n", "e">>,
       <<"t", "e", "n">> >>

VoiceQuantityWordSet == Range(voiceQuantityWords)

\* quantityMap[word]: every word of the list maps to its place in the list
voiceQuantityMap(word) == IndexOf(voiceQuantityWords, word)

\* for (const part of parts) newParts.push(...part.split(sep))
RECURSIVE FlatSplit(_, _)
FlatSplit(parts, sep) ==
    IF parts = <<>> THEN <<>>
    ELSE SplitLit(Head(parts), sep) \o FlatSplit(Tail(parts), sep)

RECURSIVE SplitBySeparators(_, _)
SplitBySeparators(parts, seps) ==
    IF seps = <<>> THEN parts
    ELSE SplitBySeparators(FlatSplit(parts, Head(seps)), Tail(seps))

\* the trimmed parts the loop processes (an empty one is skipped)
VoiceParts(command) ==
    SelectSeq(MapSeq(trim, SplitBySeparators(<<command>>, voiceSeparators)), NonEmpty)

\* trimmedPart.match(/(\d+)\s+/): the group of the leftmost match, <<>> for null
VoiceNumericMatch(part) ==
    LET starts == {p \in 1..Len(part) :
                      /\ IsDigit(part[p])
                      /\ DigitRunEnd(part, p) < Len(part)
                      /\ IsSpace(part[DigitRunEnd(part, p) + 1])}
    IN  IF starts = {} THEN <<>>
        ELSE SubSeq(part, Min(starts), DigitRunEnd(part, Min(starts)))

\* quantity, given what the regular expression matched and the tokens of the part
VoiceQuantityOf(numericMatch, partTokens) ==
    LET found == {i \in 1..Len(voiceQuantityWords) : voiceQuantityWords[i] \in partTokens}
    IN  IF numericMatch # <<>> THEN parseInt(numericMatch)
        ELSE IF found # {} THEN voiceQuantityMap(voiceQuantityWords[Min(found)])
        ELSE 1

VoiceQuantity(part) == VoiceQuantityOf(VoiceNumericMatch(part), Range(VoiceTokenize(part)))

\* partTokens once the quantity words and the numeric tokens are deleted
VoicePartTokens(part) ==
    {t \in Range(VoiceTokenize(part)) \ VoiceQuantityWordSet : NotAllDigits(t)}

VoiceScored(tokens, catalog) ==
    [i \in 1..Len(catalog) |->
        [productId |-> catalog[i].id,
         score     |-> Score(Range(VoiceTokenize(catalog[i].name)), tokens)]]

\* best = scored[0], when best && best.score > 0: <<best.productId>>, else <<>>
BestOf(sorted) ==
    IF sorted # <<>> /\ sorted[1].score > 0 THEN <<sorted[1].productId>> ELSE <<>>

VoiceBest(part, catalog) ==
    BestOf(SortByScoreDesc(VoiceScored(VoicePartTokens(part), catalog)))

\* items.push({ productId: best.productId, quantity }), when there is a best
VoicePush(best, quantity) ==
    IF best # <<>> THEN <<[productId |-> best[1], quantity |-> quantity]>> ELSE <<>>

\* the item one part pushes, if any
VoiceItemOf(part, catalog) == VoicePush(VoiceBest(part, catalog), VoiceQuantity(part))

\* VoiceCollect with the quantity detected once, on the first part, and not
\* again for each part
RECURSIVE VoiceCollectWith(_, _, _)
VoiceCollectWith(parts, catalog, quantity) ==
    IF parts = <<>> THEN <<>>
    ELSE VoicePush(VoiceBest(Head(parts), catalog), quantity)
             \o VoiceCollectWith(Tail(parts), catalog, quantity)

VoiceCollectHoisted(parts, catalog) ==
    VoiceCollectWith(parts, catalog, IF parts = <<>> THEN 1 ELSE VoiceQuantity(Head(parts)))

\* parseMultipleItems returns the items and nothing else (return items): the
\* fragments that matched nothing are dropped, its caller is handed none
VoiceUnavailable(command, catalog) == <<>>

RECURSIVE VoiceCollect(_, _)
VoiceCollect(parts, catalog) ==
    IF parts = <<>> THEN <<>>
    ELSE VoiceItemOf(Head(parts), catalog) \o VoiceCollect(Tail(parts), catalog)

VoiceParseMultipleItems(command, catalog) == VoiceCollect(VoiceParts(command), catalog)

(***************************************************************************)
(* CustomerApp.handleChatSubmit: parseMultipleItems.                       *)
(***************************************************************************)
chatQuantityWords ==
    << <<"o", "n", "e">>,
       <<"t", "w", "o">>,
       <<"t", "h", "r", "e", "e">>,
       <<"f", "o", "u", "r">>,
       <<"f", "i", "v", "e">>,
       <<"s", "i", "x">>,
       <<"s", "e", "v", "e", "n">>,
       <<"e", "i", "g", "h", "t">>,
       <<"n", "i", "n", "e">>,
       <<"t", "e", "n">>,
       <<"e", "l", "e", "v", "e", "n">>,
       <<"t", "w", "e", "l", "v", "e">> >>

ChatQuantityWordSet == Range(chatQuantityWords)

\* A quantity that is no number.  quantityMap is a plain object literal, so
\* quantityMap["constructor"] is the inherited Object function, which is not
\* undefined; (aggregated[id] || 0) + quantity then makes a string of it.
NonNumeric == -1

\* the only token [a-z0-9]+ that names a property inherited from Object.prototype
inheritedKey == <<"c", "o", "n", "s", "t", "r", "u", "c", "t", "o", "r">>

\* quantityMap[t] !== undefined
ChatQuantityMapHas(t) == t \in ChatQuantityWordSet \/ t = inheritedKey

\* quantityMap[t]
chatQuantityMap(t) ==
    IF t \in ChatQuantityWordSet THEN IndexOf(chatQuantityWords, t) ELSE NonNumeric

\* the length of the alternative of (?:,|\band\b|&|\+|\bplus\b|\bwith\b) that
\* matches at text[k], case ignored; 0 when none does
ChatSeparatorAt(text, k) ==
    LET WordAt(w) ==
            /\ k + Len(w) - 1 <= Len(text)
            /\ toLowerCase(SubSeq(text, k, k + Len(w) - 1)) = w
            /\ (k = 1 \/ ~IsWordChar(text[k - 1]))
            /\ (k + Len(w) > Len(text) \/ ~IsWordChar(text[k + Len(w)]))
    IN  IF text[k] \in {",", "&", "+"} THEN 1
        ELSE IF WordAt(<<"a", "n", "d">>) THEN 3
        ELSE IF WordAt(<<"p", "l", "u", "s">>) THEN 4
        ELSE IF WordAt(<<"w", "i", "t", "h">>) THEN 4
        ELSE 0

\* the first position at or after p that holds no white space
RECURSIVE SkipSpaces(_, _)
SkipSpaces(text, p) ==
    IF p <= Len(text) /\ IsSpace(text[p]) THEN SkipSpaces(text, p + 1) ELSE p

\* the last position of the match of /\s*(?:...)\s*/i that starts at text[p];
\* 0 when there is none
ChatTrailingSpaces(text, k, n) == IF n > 0 THEN SkipSpaces(text, k + n) - 1 ELSE 0

ChatSeparatorEnd(text, k) ==
    ChatTrailingSpaces(text, k, IF k <= Len(text) THEN ChatSeparatorAt(text, k) ELSE 0)

ChatMatchEnd(text, p) == ChatSeparatorEnd(text, SkipSpaces(text, p))

\* input.split(/\s*(?:,|\band\b|&|\+|\bplus\b|\bwith\b)\s*/i): found holds
\* the positions at or after start where the expression matches
RECURSIVE ChatSplitFrom(_, _)
RECURSIVE ChatSplitAt(_, _, _)
ChatSplitAt(text, start, found) ==
    IF found = {} THEN <<SubSeq(text, start, Len(text))>>
    ELSE <<SubSeq(text, start, Min(found) - 1)>>
             \o ChatSplitFrom(text, ChatMatchEnd(text, Min(found)) + 1)

ChatSplitFrom(text, start) ==
    ChatSplitAt(text, start, {p \in start..Len(text) : ChatMatchEnd(text, p) > 0})

\* .map(p => p.trim()).filter(Boolean)
ChatParts(input) == SelectSeq(MapSeq(trim, ChatSplitFrom(input, 1)), NonEmpty)

\* part.match(/(\d+)/): the group of the leftmost match, <<>> for null
ChatNumericMatch(part) ==
    LET starts == {p \in 1..Len(part) : IsDigit(part[p])}
    IN  IF starts = {} THEN <<>>
        ELSE SubSeq(part, Min(starts), DigitRunEnd(part, Min(starts)))

\* if (quantity < 1) quantity = 1: a comparison with what is no number is false
ChatClamp(quantity) == IF quantity # NonNumeric /\ quantity < 1 THEN 1 ELSE quantity

\* quantity, given what the regular expression matched and the tokens of the part
ChatQuantityOf(numericMatch, tokens) ==
    LET found == {i \in 1..Len(tokens) : ChatQuantityMapHas(tokens[i])}
    IN  ChatClamp(IF numericMatch # <<>> THEN parseInt(numericMatch)
                  ELSE IF found # {} THEN chatQuantityMap(tokens[Min(found)])
                  ELSE 1)

ChatQuantity(part) == ChatQuantityOf(ChatNumericMatch(part), ChatTokenize(part))

ChatPartTokens(part) ==
    Range(SelectSeq(ChatTokenize(part), NotAllDigits)) \ ChatQuantityWordSet

ChatScored(tokens, catalog) ==
    [i \in 1..Len(catalog) |->
        [productId |-> catalog[i].id,
         score     |-> Score(Range(ChatTokenize(catalog[i].name)), tokens)]]

ChatBest(part, catalog) ==
    BestOf(SortByScoreDesc(ChatScored(ChatPartTokens(part), catalog)))

\* (aggregated[id] || 0) + quantity
AddQuantity(sum, quantity) ==
    IF sum = NonNumeric \/ quantity = NonNumeric THEN NonNumeric ELSE sum + quantity

\* the end of one turn of parts.forEach: acc is [aggregated, unavailable],
\* aggregated a function from the product ids that are its keys
ChatAggregate(acc, part, best, quantity) ==
    IF best # <<>>
    THEN [acc EXCEPT !.aggregated =
             [k \in DOMAIN acc.aggregated \cup {best[1]} |->
                 IF k # best[1] THEN acc.aggregated[k]
                 ELSE AddQuantity(IF k \in DOMAIN acc.aggregated THEN acc.aggregated[k] ELSE 0,
                                  quantity)]]
    ELSE [acc EXCEPT !.unavailable = Append(acc.unavailable, part)]

ChatStep(acc, part, catalog) ==
    ChatAggregate(acc, part, ChatBest(part, catalog), ChatQuantity(part))

RECURSIVE ChatForEach(_, _, _)
ChatForEach(acc, parts, catalog) ==
    IF parts = <<>> THEN acc
    ELSE ChatForEach(ChatStep(acc, Head(parts), catalog), Tail(parts), catalog)

\* the keys of an object that are array indices come out of Object.entries in
\* ascending numeric order, whatever the order they were added in
RECURSIVE SortedKeys(_)
SortedKeys(S) == IF S = {} THEN <<>> ELSE <<Min(S)>> \o SortedKeys(S \ {Min(S)})

\* Object.entries(aggregated).map(([pid, qty]) => ({productId: parseInt(pid), quantity: qty}))
ObjectEntries(aggregated) ==
    LET keys == SortedKeys(DOMAIN aggregated)
    IN  [i \in 1..Len(keys) |-> [productId |-> keys[i], quantity |-> aggregated[keys[i]]]]

\* the cap of both call sites: slice(0, 15)
MaxItems == 15

\* Slice without the cut
SliceAll(items, n) == items

Slice(items, n) == SubSeq(items, 1, IF Len(items) < n THEN Len(items) ELSE n)

\* return { items: items.slice(0, 15), unavailable }
ChatReturn(acc) ==
    [items       |-> Slice(ObjectEntries(acc.aggregated), MaxItems),
     unavailable |-> acc.unavailable]

ChatParseMultipleItems(input, catalog) ==
    ChatReturn(ChatForEach([aggregated |-> <<>>, unavailable |-> <<>>],
                           ChatParts(input), catalog))

(***************************************************************************)
(* AudioAssistant.handleVoiceCommand, the whole handler: what it hands to  *)
(* onBulkAddToCart and onAddToCart, the toasts it shows and the            *)
(* recommendations it sets.                                                *)
(***************************************************************************)
categoryIntent ==
    << <<"v", "e", "g", "e", "t", "a", "b", "l", "e">>,
       <<"f", "r", "u", "i", "t">>,
       <<"d", "a", "i", "r", "y">>,
       <<"s", "t", "a", "p", "l", "e">>,
       <<"r", "i", "c", "e">>,
       <<"f", "l", "o", "u", "r">>,
       <<"m", "i", "l", "k">>,
       <<"y", "o", "g", "u", "r", "t">>,
       <<"b", "a", "n", "a", "n", "a">>,
       <<"a", "p", "p", "l", "e">>,
       <<"t", "o", "m", "a", "t", "o">>,
       <<"s", "p", "i", "n", "a", "c", "h">> >>

\* Object.keys(categoryMap), and categoryMap[k] at the same place
categoryKeys ==
    << <<"v", "e", "g", "e", "t", "a", "b", "l", "e">>,
       <<"f", "r", "u", "i", "t">>,
       <<"d", "a", "i", "r", "y">>,
       <<"s", "t", "a", "p", "l", "e">> >>

\* a map that sends each key to itself
categoryMapToKey == categoryKeys

categoryMap ==
    << <<"v", "e", "g", "e", "t", "a", "b", "l", "e", "s">>,
       <<"f", "r", "u", "i", "t", "s">>,
       <<"d", "a", "i", "r", "y">>,
       <<"s", "t", "a", "p", "l", "e", "s">> >>

\* Object.keys(SUGGESTION_MAP); each key suggests the three names of its fruit
suggestionKeys ==
    << <<"b", "a", "n", "a", "n", "a">>,
       <<"b", "a", "n", "a", "n", "a", "s">>,
       <<"a", "p", "p", "l", "e">>,
       <<"a", "p", "p", "l", "e", "s">> >>

SUGGESTION_MAP(i) ==
    IF i <= 2 THEN <<"Kashmir Banana", "Kerala Banana", "Sweet Banana">>
    ELSE <<"Kashmir Apple", "Fuji Apple", "Fresh Apples">>

RECURSIVE Suggestions(_, _)
Suggestions(lowerCommand, i) ==
    IF i > Len(suggestionKeys) THEN <<>>
    ELSE (IF includes(lowerCommand, suggestionKeys[i]) THEN SUGGESTION_MAP(i) ELSE <<>>)
             \o Suggestions(lowerCommand, i + 1)

\* the effects of one call: bulk and add hold the argument of the call made
\* (none or one), toasts the titles shown.  What follows the two bulk branches:
\* the single-item logic, the category intent and the recommendations; best
\* is scored.sort(...)[0] when its score is above 0.
VoiceFallback(none, lowerCommand, queryTokens, best, catalog) ==
    LET hasCategoryOnlyIntent ==
            /\ \E i \in 1..Len(categoryIntent) : categoryIntent[i] \in queryTokens
            /\ Cardinality(queryTokens) <= 2
        prods    == {i \in 1..Len(catalog) : catalog[i].id = best[1]}
        targets  == {i \in 1..Len(categoryKeys) : categoryKeys[i] \in queryTokens}
        catProds == {i \in 1..Len(catalog) :
                        toLowerCase(catalog[i].category) = categoryMap[Min(targets)]}
    IN  IF best # <<>> /\ prods # {}
        THEN [none EXCEPT !.add = <<catalog[Min(prods)].id>>, !.toasts = <<"Item Added">>]
        ELSE IF best = <<>> /\ hasCategoryOnlyIntent /\ targets # {} /\ catProds # {}
        THEN [none EXCEPT !.add = <<catalog[Min(catProds)].id>>,
                          !.toasts = <<"Category Item Added">>]
        ELSE [none EXCEPT !.toasts = <<"Items Not Found">>,
                          !.recommendations = Suggestions(lowerCommand, 1)]

\* the two bulk branches, multipleItems being the parsed items after the cap
VoiceBulk(none, multipleItems, lowerCommand, queryTokens, catalog) ==
    IF Len(multipleItems) > 1
    THEN [none EXCEPT !.items = multipleItems, !.bulk = <<multipleItems>>,
                      !.toasts = none.toasts \o <<"Multiple Items Added">>]
    ELSE IF Len(multipleItems) = 1
    THEN [none EXCEPT !.items = multipleItems, !.bulk = <<multipleItems>>,
                      !.toasts = <<"Item Added">>]
    ELSE VoiceFallback(none, lowerCommand, queryTokens,
                       BestOf(SortByScoreDesc(VoiceScored(queryTokens, catalog))), catalog)

\* the cap of the list: more than 15 items are cut to 15, with a toast
VoiceCap(parsed, recs, lowerCommand, queryTokens, catalog) ==
    VoiceBulk([returned |-> parsed, items |-> <<>>, bulk |-> <<>>, add |-> <<>>,
               toasts |-> IF Len(parsed) > MaxItems THEN <<"Too many items">> ELSE <<>>,
               recommendations |-> recs],
              IF Len(parsed) > MaxItems THEN Slice(parsed, MaxItems) ELSE parsed,
              lowerCommand, queryTokens, catalog)

VoiceQueryTokens(lowerCommand) == Range(VoiceTokenize(lowerCommand))

handleVoiceCommand(command, catalog, recs) ==
    VoiceCap(VoiceParseMultipleItems(command, catalog), recs, toLowerCase(command),
             VoiceQueryTokens(toLowerCase(command)), catalog)

(***************************************************************************)
(* The state: the catalog, the texts in the two input boxes and in the     *)
(* speech transcript, and what the two handlers have done.  utterance is   *)
(* the text the customer entered; the handlers clear their boxes.          *)
(***************************************************************************)
(* What a call leaves of the catalog.  Both handlers score with            *)
(* products.map(...), which builds a new array, and sort that array in     *)
(* place: the catalog itself keeps its entries and their order.            *)
(***************************************************************************)
\* the entry of the catalog with the given id
ProductOf(catalog, id) == catalog[Min({i \in 1..Len(catalog) : catalog[i].id = id})]

\* the catalog in the order of a list of scores
InOrderOf(catalog, scored) == [i \in 1..Len(scored) |-> ProductOf(catalog, scored[i].productId)]

\* the catalog, had the sort been done on the catalog itself
CatalogSortedInPlace(text, catalog) ==
    InOrderOf(catalog, SortByScoreDesc(VoiceScored(VoiceQueryTokens(toLowerCase(text)), catalog)))

CatalogAfterScoring(text, catalog) == catalog

(***************************************************************************)
(* A product of the catalog without a name.  The catalog is the JSON the   *)
(* backend sent, cast to Product[] unchecked, so name can be undefined;    *)
(* tokenize(p.name) then calls toLowerCase on undefined, a TypeError no    *)
(* handler catches.                                                        *)
(***************************************************************************)
\* name: undefined, which no text equals
MissingName == <<"undefined">>

HasMissingName(catalog) == \E i \in 1..Len(catalog) : catalog[i].name = MissingName

\* handleVoiceCommand scores every product, in parseMultipleItems for the
\* first part that is not empty, else in the single-item logic
VoiceThrows(command, catalog) == HasMissingName(catalog)

\* the chat parser scores every product for each part, when there is a part
ChatThrows(input, catalog) == ChatParts(input) # <<>> /\ HasMissingName(catalog)

(***************************************************************************)
(* dateUtils (formatIST).  A Date is its time value, the milliseconds      *)
(* since an epoch; the model counts them from the midnight (UTC) that      *)
(* starts day EpochDay after 1970-01-01, so that the instants of a few     *)
(* weeks are small numbers.  getTime() differences are the same for any    *)
(* epoch, and the calendar fields add EpochDay back.                       *)
(***************************************************************************)
\* the days from 1970-01-01 to 2023-12-20: 53 years, 13 leap days, 353 days
EpochDay == 53 * 365 + 13 + 353

Second == 1000

Minute == 60 * Second

Hour == 60 * Minute

Day == 24 * Hour

\* const IST_OFFSET = 5.5 * 60 * 60 * 1000
IST_OFFSET == (55 * 60 * 60 * 1000) \div 10

\* the offset of the time zone 'Asia/Kolkata' from UTC, at every instant since 1945
KolkataOffset == 5 * Hour + 30 * Minute

\* toIST: new Date(utcDate.getTime() + IST_OFFSET)
toIST(d) == d + IST_OFFSET

\* the year, month and day of the proleptic Gregorian calendar of the day
\* that is z days after 0000-03-01
CivilOfEra(z) ==
    LET era == z \div 146097
        doe == z - era * 146097
        yoe == (doe - doe \div 1460 + doe \div 36524 - doe \div 146096) \div 365
        doy == doe - (365 * yoe + yoe \div 4 - yoe \div 100)
        mp  == (5 * doy + 2) \div 153
        m   == IF mp < 10 THEN mp + 3 ELSE mp - 9
    IN  [year  |-> yoe + era * 400 + (IF m <= 2 THEN 1 ELSE 0),
         month |-> m,
         day   |-> doy - (153 * mp + 2) \div 5 + 1]

\* the calendar date of the day that is n days after 1970-01-01
CivilFromDays(n) == CivilOfEra(n + 719468)

\* the fields Intl.DateTimeFormat gives an instant in the zone 'Asia/Kolkata'
KolkataFields(d) ==
    LET local == d + KolkataOffset
        civil == CivilFromDays(EpochDay + local \div Day)
        ofDay == local % Day
    IN  [year |-> civil.year, month |-> civil.month, day |-> civil.day,
         hour |-> ofDay \div Hour, minute |-> (ofDay % Hour) \div Minute,
         second |-> (ofDay % Minute) \div Second]

\* formatIST.full: DD/MM/YYYY, HH:mm:ss on the 24 hour clock
full(d) ==
    LET f == KolkataFields(toIST(d))
    IN  <<f.day, f.month, f.year, f.hour, f.minute, f.second, "IST">>

\* formatIST.dateTime: DD/MM/YYYY, HH:mm
dateTime(d) ==
    LET f == KolkataFields(toIST(d))
    IN  <<f.day, f.month, f.year, f.hour, f.minute, "IST">>

\* formatIST.time: HH:mm
time(d) ==
    LET f == KolkataFields(toIST(d))
    IN  <<f.hour, f.minute, "IST">>

\* hour12: true: the hour on the 12 hour clock and the half of the day
Hour12(h) == <<IF h % 12 = 0 THEN 12 ELSE h % 12, IF h < 12 THEN "am" ELSE "pm">>

\* formatIST.orderTime: day, month, year, hh:mm am/pm
orderTime(d) ==
    LET f == KolkataFields(toIST(d))
    IN  <<f.day, f.month, f.year, Hour12(f.hour)[1], f.minute, Hour12(f.hour)[2]>>

\* `${n} unit${n > 1 ? 's' : ''} ago`
Ago(n, unit, units) == <<n, IF n > 1 THEN units ELSE unit, "ago">>

\* the ladder of formatIST.relative
RelativeOf(seconds, minutes, hours, days) ==
    IF seconds < 60 THEN <<"Just now">>
    ELSE IF minutes < 60 THEN Ago(minutes, "minute", "minutes")
    ELSE IF hours < 24 THEN Ago(hours, "hour", "hours")
    ELSE IF days < 7 THEN Ago(days, "day", "days")
    ELSE IF days \div 7 < 4 THEN Ago(days \div 7, "week", "weeks")
    ELSE IF days \div 30 < 12 THEN Ago(days \div 30, "month", "months")
    ELSE Ago(days \div 365, "year", "years")

\* seconds, minutes, hours and days of a difference in milliseconds, each
\* the Math.floor of the one before
RelativeOfMs(diffInMs) ==
    RelativeOf(diffInMs \div 1000, (diffInMs \div 1000) \div 60,
               ((diffInMs \div 1000) \div 60) \div 60,
               (((diffInMs \div 1000) \div 60) \div 60) \div 24)

\* formatIST.relative, called at the instant clock
relative(d, clock) == RelativeOfMs(clock - toIST(d))

(***************************************************************************)
VARIABLES
    products,        \* the catalog both components read
    utterance,       \* the text entered
    transcript,      \* AudioAssistant: the transcript of the speech hook
    voiceChatInput,  \* AudioAssistant: chatInput
    recommendations, \* AudioAssistant: recommendations
    voiceParsed,     \* handleVoiceCommand: what parseMultipleItems returned
    multipleItems,   \* handleVoiceCommand: multipleItems, after the cap
    chatInput,       \* CustomerApp: chatInput
    parsed,          \* CustomerApp.handleChatSubmit: parsed
    bulkAddCalls,    \* the calls of bulkAddToCart: [from, items]
    addCalls,        \* the calls of addToCart: product ids
    voiceToasts,     \* the toasts of the voice assistant, by title
    chatToasts,      \* the toasts of the chat handler, by title
    voiceRuns,       \* the calls of handleVoiceCommand: [threw, result]
    chatRuns         \* the calls of CustomerApp.handleChatSubmit: [threw, result]

assistantVars ==
    <<products, utterance, transcript, voiceChatInput, recommendations,
      voiceParsed, multipleItems, chatInput, parsed, bulkAddCalls, addCalls,
      voiceToasts, chatToasts, voiceRuns, chatRuns>>

\* dateUtils: a call of a formatter of formatIST
VARIABLES
    date,            \* the instant handed to the formatter
    now,             \* new Date() at the call
    shown            \* what each formatter returned, <<>> before its call

dateVars == <<date, now, shown>>

\* localStorage, the page on show, CustomerApp and Checkout
VARIABLES
    user,            \* localStorage "user": the email of the user, "" when not stored
    storage,         \* localStorage: the carts stored, by key
    page,            \* the route on show
    cart,            \* CustomerApp: cart
    stock,           \* CustomerApp: the stock of each product of products
    checkoutCart,    \* Checkout: cart
    paymentMethod,   \* Checkout: paymentMethod
    paymentStatus,   \* Checkout: paymentStatus
    createOrders,    \* the requests of /api/create-order sent
    built,           \* for each user, the cart the user's own operations amount to
    lastOp           \* the handler that ran last, and how its request ended

shopVars == <<user, storage, page, cart, stock, checkoutCart, paymentMethod,
              paymentStatus, createOrders, built, lastOp>>

\* OrderTracking and the requests of /api/order-status it has sent
VARIABLES
    orderId,         \* useParams().orderId, 0 while OrderTracking is not on show
    instance,        \* the number of times OrderTracking was mounted
    status,          \* OrderTracking: status
    location,        \* OrderTracking: location, <<>> for null
    orderItems,      \* OrderTracking: items
    loads,           \* the calls of load() in the order they were issued
    courier          \* the backend: the updates each order has received

trackVars == <<orderId, instance, status, location, orderItems, loads, courier>>

\* the state outside the two assistants
pageVars == <<dateVars, shopVars, trackVars>>

vars == <<assistantVars, pageVars>>

Formatters == {"relative", "full", "dateTime", "time", "orderTime"}

NotShown == [f \in Formatters |-> <<>>]

\* no formatter is called while the assistants are at work
DateIdle == date = 0 /\ now = 0 /\ shown = NotShown

\* the assistants are not at work: no catalog, no text, no call
AssistantIdle ==
    /\ products = <<>> /\ utterance = <<>> /\ transcript = <<>>
    /\ voiceChatInput = <<>> /\ chatInput = <<>> /\ recommendations = <<>>
    /\ voiceParsed = <<>> /\ multipleItems = <<>>
    /\ parsed = [items |-> <<>>, unavailable |-> <<>>]
    /\ bulkAddCalls = <<>> /\ addCalls = <<>>
    /\ voiceToasts = <<>> /\ chatToasts = <<>>
    /\ voiceRuns = <<>> /\ chatRuns = <<>>

\* const [cart, setCart] = useState({})
EmptyCart == [p \in {} |-> 0]

ProductIds == {1, 2}

Users == {"a", "b"}

NoOp == [op |-> "", product |-> 0, outcome |-> ""]

\* the shop is not open: nobody stored, nothing stored, the landing page on show
ShopIdle ==
    /\ user = "" /\ storage = <<>> /\ page = "home"
    /\ cart = EmptyCart /\ stock = [p \in ProductIds |-> 1]
    /\ checkoutCart = EmptyCart /\ paymentMethod = "online" /\ paymentStatus = "pending"
    /\ createOrders = 0
    /\ built = [u \in Users |-> EmptyCart]
    /\ lastOp = NoOp

OrderIds == {1, 2}

\* useState("Loading..."), useState(null), useState([])
Loading == "Loading..."

\* OrderTracking is not on show and no request was sent
TrackIdle ==
    /\ orderId = 0 /\ instance = 0
    /\ status = Loading /\ location = <<>> /\ orderItems = <<>>
    /\ loads = <<>>
    /\ courier = [o \in OrderIds |-> 0]

(***************************************************************************)
(* The catalogs and the utterances the model draws its inputs from.        *)
(***************************************************************************)
\* the largest numeral of the generated fragments
MaxQty == 3

\* the number of times each handler is called in a run
MaxRuns == 2

\* the number of fragments of the longest utterance, and of products of the
\* catalog it is parsed against
LongMax == 20

Product(id, name, category) == [id |-> id, name |-> name, category |-> category]

FreshTomatoes ==
    Product(1, <<"F", "r", "e", "s", "h", " ", "T", "o", "m", "a", "t", "o", "e", "s">>,
            <<"v", "e", "g", "e", "t", "a", "b", "l", "e", "s">>)

SweetBananas ==
    Product(3, <<"S", "w", "e", "e", "t", " ", "B", "a", "n", "a", "n", "a", "s">>,
            <<"f", "r", "u", "i", "t", "s">>)

GreenApples ==
    Product(5, <<"G", "r", "e", "e", "n", " ", "A", "p", "p", "l", "e", "s">>,
            <<"f", "r", "u", "i", "t", "s">>)

RedApples ==
    Product(2, <<"R", "e", "d", " ", "A", "p", "p", "l", "e", "s">>,
            <<"f", "r", "u", "i", "t", "s">>)

\* the catalog of the specification's example
CatalogExample == <<FreshTomatoes, SweetBananas>>

\* a catalog whose ids do not ascend, with two products sharing a token
CatalogShop == <<GreenApples, SweetBananas, RedApples, FreshTomatoes>>

\* LongMax products named za, zb, ..., the ids descending
CatalogLong ==
    [i \in 1..LongMax |-> Product(LongMax + 1 - i, <<"Z", LowerChars[i]>>, <<>>)]

\* the decimal digits of n
RECURSIVE NumeralText(_)
NumeralText(n) ==
    IF n < 10 THEN <<DigitChars[n + 1]>>
    ELSE Append(NumeralText(n \div 10), DigitChars[(n % 10) + 1])

\* the texts of ts with sep between them
RECURSIVE Join(_, _)
Join(ts, sep) ==
    IF ts = <<>> THEN <<>>
    ELSE IF Len(ts) = 1 THEN ts[1]
    ELSE ts[1] \o sep \o Join(Tail(ts), sep)

Words(ts) == Join(ts, <<" ">>)

Tomatoes == <<"t", "o", "m", "a", "t", "o", "e", "s">>

Bananas == <<"b", "a", "n", "a", "n", "a", "s">>

Apples == <<"a", "p", "p", "l", "e", "s">>

RedApplesText == <<"r", "e", "d", " ", "a", "p", "p", "l", "e", "s">>

\* a product no catalog holds
Mangoes == <<"m", "a", "n", "g", "o", "e", "s">>

Add == <<"A", "d", "d">>

Two == <<"t", "w", "o">>

Three == <<"t", "h", "r", "e", "e">>

Eleven == <<"e", "l", "e", "v", "e", "n">>

\* "Add 2 tomatoes and 3 bananas"
ExampleText ==
    Words(<<Add, NumeralText(2), Tomatoes>>) \o <<" ", "a", "n", "d", " ">>
        \o Words(<<NumeralText(3), Bananas>>)

Nouns == {Tomatoes, Bananas, Apples, RedApplesText, Mangoes}

QuantityNouns == {Tomatoes, RedApplesText, Mangoes}

Numerals == {NumeralText(n) : n \in 0..MaxQty} \cup {NumeralText(12)}

\* fragments without a quantity
PlainFragments ==
    Nouns \cup {Words(<<Add, n>>) : n \in Nouns} \cup {Words(<<inheritedKey, n>>) : n \in Nouns}

\* fragments with a numeral at the start, in the middle and at the end
NumeralFragments ==
    UNION {{Words(<<d, n>>), Words(<<Add, d, n>>), Words(<<n, d>>)} :
              <<d, n>> \in Numerals \X QuantityNouns}

\* fragments with one quantity word
WordFragments ==
    {Words(<<w, n>>) : <<w, n>> \in Range(chatQuantityWords) \X QuantityNouns}

\* fragments with a numeral and a quantity word, the numeral in each place
MixedFragments ==
    UNION {{Words(<<d, w, n>>), Words(<<w, d, n>>), Words(<<w, n, d>>)} :
              <<d, w, n>> \in {NumeralText(2), NumeralText(0)} \X {Three, Eleven}
                                  \X {Tomatoes, Apples}}

\* fragments with two quantity words
TwoWordFragments ==
    {Words(<<v, w, n>>) : <<v, w, n>> \in {Two, Three, Eleven} \X {Two, Three, Eleven}
                                              \X {Tomatoes, Apples}}

\* fragments that are a quantity and nothing else, and the degenerate texts
BareTexts == {Two, NumeralText(2), <<>>, <<" ">>, <<" ", "a", "n", "d", " ">>, <<",">>}

\* the fragments the two-fragment utterances are made of
PairFragments ==
    {Words(<<Add, NumeralText(2), Tomatoes>>), Words(<<NumeralText(3), Bananas>>),
     Words(<<NumeralText(2), Apples>>), Words(<<NumeralText(3), Apples>>),
     Words(<<Three, Apples>>), Bananas, Mangoes, Words(<<NumeralText(0), Tomatoes>>)}

PairSeparators ==
    {<<" ", "a", "n", "d", " ">>, <<",", " ">>, <<",">>, <<" ", "A", "N", "D", " ">>}

PairUtterances ==
    {a \o s \o b : <<a, s, b>> \in PairFragments \X PairSeparators \X PairFragments}

\* "1 za, 2 zb, ...": n fragments, the i-th naming the i-th product of CatalogLong
LongUtterance(n) ==
    Join([i \in 1..n |-> Words(<<NumeralText(i), <<"z", LowerChars[i]>>>>)], <<",", " ">>)

LongUtterances == {LongUtterance(n) : n \in (MaxItems - 1)..LongMax}

ShortUtterances ==
    PlainFragments \cup NumeralFragments \cup WordFragments \cup MixedFragments
        \cup TwoWordFragments \cup BareTexts \cup PairUtterances

\* a product whose name holds a quantity word
TwoMinuteNoodles ==
    Product(7, <<"T", "w", "o", " ", "M", "i", "n", "u", "t", "e", " ",
                 "N", "o", "o", "d", "l", "e", "s">>,
            <<"s", "t", "a", "p", "l", "e", "s">>)

CatalogNoodles == <<TwoMinuteNoodles, FreshTomatoes>>

\* utterances of numerals, quantity words and stop words only
QuantityOnlyTexts ==
    {Two, NumeralText(2), Eleven, Words(<<Add, Two>>), Words(<<Two, NumeralText(2)>>),
     Words(<<NumeralText(2), Two>>), Two \o <<",", " ">> \o NumeralText(3)}

NoodleInputs == {CatalogNoodles} \X (QuantityOnlyTexts \cup {Words(<<Two, Tomatoes>>)})

\* two fragments with each of the separators, in several cases and spacings
MoreSeparators ==
    {<<" ", "&", " ">>, <<"&">>, <<" ", "+", " ">>, <<"+">>, <<" ", ",", " ">>,
     <<" ", "p", "l", "u", "s", " ">>, <<" ", "P", "l", "u", "s", " ">>,
     <<" ", "w", "i", "t", "h", " ">>, <<" ", "W", "I", "T", "H", " ">>,
     <<" ", " ", "a", "n", "d", " ", " ">>, <<" ", "A", "n", "d", " ">>}

SeparatorTexts ==
    {Words(<<NumeralText(2), Tomatoes>>) \o sep \o Words(<<NumeralText(3), Bananas>>) :
        sep \in MoreSeparators}

SeparatorInputs == {CatalogExample} \X SeparatorTexts

\* a product whose name holds a short word ending in "es"
YesCola ==
    Product(9, <<"Y", "e", "s", " ", "C", "o", "l", "a">>, <<"d", "r", "i", "n", "k", "s">>)

CatalogShortWords == <<FreshTomatoes, YesCola>>

ShortWordTexts ==
    {<<"y", "e", "s">>, <<"y">>, <<"y", "e", "s", " ", "c", "o", "l", "a">>,
     <<"b", "e", "r", "r", "i", "e", "s">>, <<"g", "a", "s">>}

ShortWordInputs == {CatalogShortWords} \X ShortWordTexts

\* a product whose name holds a separator word
VitaminPlus ==
    Product(11, <<"V", "i", "t", "a", "m", "i", "n", " ", "P", "l", "u", "s">>,
            <<"h", "e", "a", "l", "t", "h">>)

CatalogPlus == <<FreshTomatoes, VitaminPlus>>

\* utterances of separators and white space only, and utterances without a letter
SeparatorOnlyTexts ==
    {<<",">>, <<"&">>, <<" ", "+", " ">>, <<"a", "n", "d">>, <<"p", "l", "u", "s">>,
     <<"W", "i", "t", "h">>, <<",", " ", "&", " ", "a", "n", "d", " ", "+">>,
     <<" ", "a", "n", "d", " ">>}

LetterlessTexts ==
    {NumeralText(2), <<"1", "2", " ", "5">>, <<"2", ",", " ", "3">>, <<"?", "!">>, <<"7", " ", "-">>}

DegenerateInputs ==
    ({CatalogExample, CatalogPlus, <<>>} \X (SeparatorOnlyTexts \cup LetterlessTexts))
        \cup ({<<>>} \X {Tomatoes, <<"v", "e", "g", "e", "t", "a", "b", "l", "e", "s">>})

\* catalogs with an entry whose name is missing, and whose name is empty
CatalogMissingName ==
    <<Product(4, MissingName, <<"f", "r", "u", "i", "t", "s">>), FreshTomatoes, SweetBananas>>

CatalogEmptyName ==
    <<Product(6, <<>>, <<"f", "r", "u", "i", "t", "s">>), FreshTomatoes, SweetBananas>>

NamelessInputs ==
    {CatalogMissingName, CatalogEmptyName}
        \X {Tomatoes, Mangoes, ExampleText, <<",">>, Words(<<NumeralText(2), Bananas>>)}

\* products that no utterance names, one for each category and a second vegetable
OrganicSpinach ==
    Product(2, <<"O", "r", "g", "a", "n", "i", "c", " ", "S", "p", "i", "n", "a", "c", "h">>,
            <<"v", "e", "g", "e", "t", "a", "b", "l", "e", "s">>)

WholeMilk ==
    Product(5, <<"W", "h", "o", "l", "e", " ", "M", "i", "l", "k">>, <<"d", "a", "i", "r", "y">>)

BasmatiRice ==
    Product(7, <<"B", "a", "s", "m", "a", "t", "i", " ", "R", "i", "c", "e">>,
            <<"s", "t", "a", "p", "l", "e", "s">>)

CatalogCategories == <<WholeMilk, OrganicSpinach, FreshTomatoes, SweetBananas, BasmatiRice>>

Vegetables == <<"v", "e", "g", "e", "t", "a", "b", "l", "e", "s">>

NeedDairyProducts ==
    <<"I", " ", "n", "e", "e", "d", " ", "d", "a", "i", "r", "y", " ", "p", "r", "o", "d", "u", "c", "t", "s">>

GetVegetablesAndFruits ==
    <<"G", "e", "t", " ", "3", " ", "v", "e", "g", "e", "t", "a", "b", "l", "e", "s", " ", "a", "n", "d", " ", "2", " ", "f", "r", "u", "i", "t", "s">>

\* utterances of category words, alone and with other words
CategoryTexts ==
    {Vegetables, NeedDairyProducts, GetVegetablesAndFruits,
     <<"v", "e", "g", "e", "t", "a", "b", "l", "e">>,
     <<"f", "r", "u", "i", "t", "s">>, <<"f", "r", "u", "i", "t">>,
     <<"d", "a", "i", "r", "y">>, <<"s", "t", "a", "p", "l", "e", "s">>,
     <<"s", "t", "a", "p", "l", "e">>,
     <<"d", "a", "i", "r", "y", " ", "p", "r", "o", "d", "u", "c", "t", "s">>,
     <<"s", "o", "m", "e", " ", "v", "e", "g", "e", "t", "a", "b", "l", "e">>,
     <<"f", "r", "u", "i", "t", " ", "a", "n", "d", " ", "d", "a", "i", "r", "y">>,
     <<"2", " ", "d", "a", "i", "r", "y">>,
     <<"d", "a", "i", "r", "y", " ", "d", "r", "i", "n", "k", " ", "n", "o", "w">>,
     <<"s", "n", "a", "c", "k", "s">>,
     <<"f", "l", "o", "u", "r">>}

\* a catalog with every category, one with vegetables and fruits only, and none
CategoryInputs == {CatalogCategories, CatalogExample, <<>>} \X CategoryTexts

\* two products whose names share a word, the second with a digit in its other word
FarmEggs ==
    Product(12, <<"F", "a", "r", "m", " ", "E", "g", "g", "s">>, <<"d", "a", "i", "r", "y">>)

OmegaEggs ==
    Product(13, <<"O", "m", "e", "g", "a", "3", " ", "E", "g", "g", "s">>,
            <<"d", "a", "i", "r", "y">>)

CatalogEggs == <<FarmEggs, OmegaEggs>>

EggTexts ==
    {<<"o", "m", "e", "g", "a", " ", "e", "g", "g", "s">>,
     <<"2", " ", "f", "a", "r", "m", " ", "e", "g", "g", "s">>,
     <<"o", "m", "e", "g", "a">>}

EggInputs == {CatalogEggs} \X EggTexts

\* the utterances the customer may enter a second time
RepeatTexts == {ExampleText, Tomatoes, Mangoes, Words(<<NumeralText(2), Bananas>>)}

\* the (catalog, utterance) pairs a run starts from
Inputs ==
    ({CatalogExample, CatalogShop} \X ShortUtterances)
        \cup ({<<>>} \X PairFragments)
        \cup ({CatalogLong} \X LongUtterances)
        \cup NoodleInputs
        \cup SeparatorInputs
        \cup ShortWordInputs
        \cup DegenerateInputs
        \cup NamelessInputs
        \cup CategoryInputs
        \cup EggInputs

(***************************************************************************)
(* The state machine.                                                      *)
(***************************************************************************)
Init ==
    \E in \in Inputs, spoken \in BOOLEAN :
        /\ products = in[1]
        /\ utterance = in[2]
        /\ transcript = IF spoken THEN in[2] ELSE <<>>
        /\ voiceChatInput = IF spoken THEN <<>> ELSE in[2]
        /\ chatInput = in[2]
        /\ recommendations = <<>>
        /\ voiceParsed = <<>>
        /\ multipleItems = <<>>
        /\ parsed = [items |-> <<>>, unavailable |-> <<>>]
        /\ bulkAddCalls = <<>>
        /\ addCalls = <<>>
        /\ voiceToasts = <<>>
        /\ chatToasts = <<>>
        /\ voiceRuns = <<>>
        /\ chatRuns = <<>>
        /\ DateIdle
        /\ ShopIdle
        /\ TrackIdle

\* AudioAssistant.handleChatSubmit: when handleVoiceCommand throws, what follows
\* the call (setChatInput, resetTranscript) is not reached
VoiceHandleChatSubmit ==
    \E textToProcess \in {IF transcript # <<>> THEN transcript ELSE voiceChatInput} :
        /\ trim(textToProcess) # <<>>
        /\ Len(voiceRuns) < MaxRuns
        /\ IF VoiceThrows(textToProcess, products)
           THEN /\ voiceRuns' = Append(voiceRuns, [threw |-> TRUE, result |-> <<>>])
                /\ UNCHANGED <<voiceParsed, multipleItems, bulkAddCalls, addCalls, voiceToasts,
                               recommendations, voiceChatInput, transcript>>
           ELSE /\ \E did \in {handleVoiceCommand(textToProcess, products, recommendations)} :
                       /\ voiceParsed' = did.returned
                       /\ multipleItems' = did.items
                       /\ bulkAddCalls' = bulkAddCalls
                              \o [i \in 1..Len(did.bulk) |->
                                     [from |-> "voice", items |-> did.bulk[i]]]
                       /\ addCalls' = addCalls \o did.add
                       /\ voiceToasts' = voiceToasts \o did.toasts
                       /\ recommendations' = did.recommendations
                       /\ voiceRuns' =
                              Append(voiceRuns, [threw |-> FALSE, result |-> did.returned])
                /\ voiceChatInput' = <<>>
                /\ transcript' = <<>>
        /\ products' = CatalogAfterScoring(textToProcess, products)
        /\ UNCHANGED <<utterance, chatInput, parsed, chatToasts, chatRuns, pageVars>>

\* CustomerApp.handleChatSubmit: the first toast is shown before the parse,
\* so it stays when the parse throws
ChatHandleChatSubmit ==
    /\ trim(chatInput) # <<>>
    /\ Len(chatRuns) < MaxRuns
    /\ IF ChatThrows(chatInput, products)
       THEN /\ chatRuns' = Append(chatRuns, [threw |-> TRUE, result |-> <<>>])
            /\ chatToasts' = Append(chatToasts, "AI Assistant Processing")
            /\ UNCHANGED <<parsed, bulkAddCalls, chatInput>>
       ELSE /\ \E got \in {ChatParseMultipleItems(chatInput, products)} :
                   /\ parsed' = got
                   /\ chatToasts' = chatToasts \o <<"AI Assistant Processing">>
                          \o (IF Len(got.unavailable) > 0
                              THEN <<"Some items not available">> ELSE <<>>)
                          \o (IF Len(got.items) > 1 THEN <<"Multiple Items Added">>
                              ELSE IF Len(got.items) = 1 THEN <<"Item Added">>
                              ELSE <<"Items Not Available">>)
                   /\ bulkAddCalls' =
                          IF Len(got.items) >= 1
                          THEN Append(bulkAddCalls, [from |-> "chat", items |-> got.items])
                          ELSE bulkAddCalls
                   /\ chatRuns' = Append(chatRuns, [threw |-> FALSE, result |-> got])
            /\ chatInput' = <<>>
    /\ products' = CatalogAfterScoring(chatInput, products)
    /\ UNCHANGED <<utterance, transcript, voiceChatInput, recommendations,
                   voiceParsed, multipleItems, addCalls, voiceToasts, voiceRuns, pageVars>>

\* AudioAssistant: onChange={(e) => setChatInput(e.target.value)}, the
\* customer typing the utterance again
VoiceOnChange ==
    /\ \E text \in RepeatTexts :
           /\ text = utterance
           /\ voiceChatInput # text
           /\ voiceChatInput' = text
    /\ UNCHANGED <<products, utterance, transcript, recommendations, voiceParsed,
                   multipleItems, chatInput, parsed, bulkAddCalls, addCalls, voiceToasts,
                   chatToasts, voiceRuns, chatRuns, pageVars>>

\* CustomerApp: onChange={(e) => setChatInput(e.target.value)}
ChatOnChange ==
    /\ \E text \in RepeatTexts :
           /\ text = utterance
           /\ chatInput # text
           /\ chatInput' = text
    /\ UNCHANGED <<products, utterance, transcript, voiceChatInput, recommendations,
                   voiceParsed, multipleItems, parsed, bulkAddCalls, addCalls, voiceToasts,
                   chatToasts, voiceRuns, chatRuns, pageVars>>

Next == VoiceHandleChatSubmit \/ ChatHandleChatSubmit \/ VoiceOnChange \/ ChatOnChange

Spec == Init /\ [][Next]_vars

(***************************************************************************)
(* The formatters of formatIST, each called once on the instant date at    *)
(* the instant now.                                                        *)
(***************************************************************************)
\* the instants of the calls: 2023-12-31 20:00:00.000 UTC and
\* 2024-01-01 00:00:00.500 UTC
Nows == {11 * Day + 20 * Hour, 12 * Day + 500}

\* the time between the instant formatted and the call
Elapsed ==
    {0, 999, 59 * Second + 999, Minute, 2 * Minute, 59 * Minute + 59 * Second,
     Hour, 2 * Hour, 5 * Hour, IST_OFFSET, IST_OFFSET + 59 * Second + 999,
     IST_OFFSET + Minute, 6 * Hour, 7 * Hour + 30 * Minute, 23 * Hour,
     23 * Hour + 59 * Minute + 59 * Second + 999, Day, 29 * Hour, 2 * Day, 8 * Day}

InitDate ==
    /\ \E clock \in Nows, ago \in Elapsed : now = clock /\ date = clock - ago
    /\ shown = NotShown
    /\ AssistantIdle
    /\ ShopIdle
    /\ TrackIdle

FormatRelative ==
    /\ shown["relative"] = <<>>
    /\ shown' = [shown EXCEPT !["relative"] = relative(date, now)]
    /\ UNCHANGED <<date, now, assistantVars, shopVars, trackVars>>

FormatFull ==
    /\ shown["full"] = <<>>
    /\ shown' = [shown EXCEPT !["full"] = full(date)]
    /\ UNCHANGED <<date, now, assistantVars, shopVars, trackVars>>

FormatDateTime ==
    /\ shown["dateTime"] = <<>>
    /\ shown' = [shown EXCEPT !["dateTime"] = dateTime(date)]
    /\ UNCHANGED <<date, now, assistantVars, shopVars, trackVars>>

FormatTime ==
    /\ shown["time"] = <<>>
    /\ shown' = [shown EXCEPT !["time"] = time(date)]
    /\ UNCHANGED <<date, now, assistantVars, shopVars, trackVars>>

FormatOrderTime ==
    /\ shown["orderTime"] = <<>>
    /\ shown' = [shown EXCEPT !["orderTime"] = orderTime(date)]
    /\ UNCHANGED <<date, now, assistantVars, shopVars, trackVars>>

NextDate == FormatRelative \/ FormatFull \/ FormatDateTime \/ FormatTime \/ FormatOrderTime

SpecDate == InitDate /\ [][NextDate]_vars

(***************************************************************************)
(* The cart of CustomerApp and of Checkout, and localStorage.  A handler   *)
(* with its request and the answer to it is one step; the effects that a   *)
(* state change schedules run in the step that makes the change.           *)
(***************************************************************************)
\* the most units a cart of the model holds, all products together
MaxUnits == 2

\* the units in a cart
RECURSIVE UnitsOf(_, _)
UnitsOf(c, ps) ==
    IF ps = {} THEN 0
    ELSE LET p == CHOOSE q \in ps : TRUE IN c[p] + UnitsOf(c, ps \ {p})

Units(c) == UnitsOf(c, DOMAIN c)

\* the most requests of /api/create-order the model follows
MaxOrders == 2

\* one key for every user
CartKeyShared(u) == <<"cart", "guest">>

\* `cart:${parsedUser?.email || "guest"}`
CartKey(u) == <<"cart", IF u = "" THEN "guest" ELSE u>>

\* the key "cart".  No code reads what is under it: the model keeps whether
\* the key is there and not the text stored
PlainKey == <<"cart">>

Written == "{...}"

\* localStorage.setItem(key, JSON.stringify(value))
SetItem(store, key, value) == [k \in DOMAIN store \cup {key} |-> IF k = key THEN value ELSE store[k]]

\* localStorage.removeItem(key)
RemoveItem(store, key) == [k \in DOMAIN store \ {key} |-> store[k]]

\* prev[productId] || 0
CountOf(c, p) == IF p \in DOMAIN c THEN c[p] ELSE 0

\* a cart of the one product only
PlusAlone(c, p, n) == [q \in {p} |-> CountOf(c, p) + n]

\* { ...prev, [productId]: (prev[productId] || 0) + n }
Plus(c, p, n) == [q \in DOMAIN c \cup {p} |-> IF q = p THEN CountOf(c, p) + n ELSE c[q]]

\* if (newCart[productId] > 1) newCart[productId] -= 1; else delete newCart[productId]
Minus(c, p) ==
    IF CountOf(c, p) > 1 THEN [c EXCEPT ![p] = c[p] - 1]
    ELSE [q \in DOMAIN c \ {p} |-> c[q]]

\* the cart the load effects read for the user stored: the one under the
\* user's key when there is one
LoadedCart(store, u) == IF CartKey(u) \in DOMAIN store THEN store[CartKey(u)] ELSE EmptyCart

\* the sync effect of CustomerApp: the cart goes under the key of the user stored
Synced(store, u, c) == SetItem(store, CartKey(u), c)

\* CustomerApp mounts: the load effect, then the sync effect
MountCustomerApp(u) ==
    /\ page' = "customer"
    /\ cart' = LoadedCart(storage, u)
    /\ storage' = Synced(storage, u, LoadedCart(storage, u))

\* CustomerAuth.handleAuth("login"), the backend accepting the customer
Login ==
    \E u \in Users :
        /\ page = "home"
        /\ user' = u
        /\ MountCustomerApp(u)
        /\ lastOp' = [op |-> "login", product |-> 0, outcome |-> "success"]
        /\ UNCHANGED <<stock, checkoutCart, paymentMethod, paymentStatus, createOrders,
                       built, assistantVars, dateVars, trackVars>>

\* /customer opened from another page, with the user stored or as guest
OpenShop ==
    /\ page \in {"home", "checkout", "success"}
    /\ MountCustomerApp(user)
    /\ checkoutCart' = EmptyCart
    /\ lastOp' = [op |-> "open", product |-> 0, outcome |-> ""]
    /\ UNCHANGED <<user, stock, paymentMethod, paymentStatus, createOrders, built,
                   assistantVars, dateVars, trackVars>>

\* CustomerApp: navigate("/"), without logging out
LeaveShop ==
    /\ page = "customer"
    /\ page' = "home"
    /\ cart' = EmptyCart
    /\ lastOp' = [op |-> "leave", product |-> 0, outcome |-> ""]
    /\ UNCHANGED <<user, storage, stock, checkoutCart, paymentMethod, paymentStatus,
                   createOrders, built, assistantVars, dateVars, trackVars>>

\* the users whose cart an operation of the user stored counts for
BuiltBy(u, c) == IF u \in Users THEN [built EXCEPT ![u] = c] ELSE built

\* CustomerApp.addToCart: the answer is a success with the new stock, a
\* refusal, or the request throws
AddToCart ==
    \E productId \in ProductIds, outcome \in {"success", "refused", "throws"},
       newStock \in {0, 1} :
        /\ page = "customer"
        /\ Units(cart) < MaxUnits
        /\ lastOp' = [op |-> "addToCart", product |-> productId, outcome |-> outcome]
        /\ IF outcome = "success"
           THEN /\ cart' = Plus(cart, productId, 1)
                /\ storage' = Synced(SetItem(storage, CartKey(user), Plus(cart, productId, 1)),
                                      user, Plus(cart, productId, 1))
                /\ stock' = [stock EXCEPT ![productId] = newStock]
                /\ built' = BuiltBy(user, Plus(cart, productId, 1))
           ELSE /\ newStock = 0
                /\ UNCHANGED <<cart, storage, stock, built>>
        /\ UNCHANGED <<user, page, checkoutCart, paymentMethod, paymentStatus, createOrders,
                       assistantVars, dateVars, trackVars>>

\* CustomerApp.removeFromCart
RemoveFromCart ==
    \E productId \in ProductIds, outcome \in {"success", "refused", "throws"} :
        /\ page = "customer"
        /\ productId \in DOMAIN cart
        /\ lastOp' = [op |-> "removeFromCart", product |-> productId, outcome |-> outcome]
        /\ IF outcome = "success"
           THEN /\ cart' = Minus(cart, productId)
                /\ storage' = Synced(SetItem(storage, CartKey(user), Minus(cart, productId)),
                                      user, Minus(cart, productId))
                /\ stock' = [stock EXCEPT ![productId] = 1]
                /\ built' = BuiltBy(user, Minus(cart, productId))
           ELSE UNCHANGED <<cart, storage, stock, built>>
        /\ UNCHANGED <<user, page, checkoutCart, paymentMethod, paymentStatus, createOrders,
                       assistantVars, dateVars, trackVars>>

\* the lists the assistants hand to bulkAddToCart
BulkLists == {<<[productId |-> 1, quantity |-> 1]>>,
              <<[productId |-> 2, quantity |-> 2]>>,
              <<[productId |-> 1, quantity |-> 1], [productId |-> 2, quantity |-> 1]>>}

\* data.results.forEach(result => newCart[id] = (newCart[id] || 0) + result.quantity)
RECURSIVE PlusAll(_, _)
PlusAll(c, results) ==
    IF results = <<>> THEN c
    ELSE PlusAll(Plus(c, Head(results).productId, Head(results).quantity), Tail(results))

\* CustomerApp.bulkAddToCart, the backend adding every item or none
BulkAddToCart ==
    \E items \in BulkLists, outcome \in {"success", "refused"} :
        /\ page = "customer"
        /\ Units(PlusAll(cart, items)) <= MaxUnits
        /\ lastOp' = [op |-> "bulkAddToCart", product |-> 0, outcome |-> outcome]
        /\ IF outcome = "success"
           THEN /\ cart' = PlusAll(cart, items)
                /\ storage' = Synced(SetItem(storage, PlainKey, Written),
                                      user, PlusAll(cart, items))
                /\ built' = BuiltBy(user, PlusAll(cart, items))
           ELSE UNCHANGED <<cart, storage, built>>
        /\ UNCHANGED <<user, page, stock, checkoutCart, paymentMethod, paymentStatus,
                       createOrders, assistantVars, dateVars, trackVars>>

\* CustomerApp.handleLogout.  setCart({}) and navigate("/") are called one
\* after the other: whether the sync effect still runs before CustomerApp
\* is taken down depends on how React batches the two.
HandleLogout ==
    \E syncRuns \in BOOLEAN :
        /\ page = "customer"
        /\ user' = ""
        /\ storage' = IF syncRuns
                      THEN Synced(RemoveItem(storage, PlainKey), "", EmptyCart)
                      ELSE RemoveItem(storage, PlainKey)
        /\ cart' = EmptyCart
        /\ page' = "home"
        /\ lastOp' = [op |-> "logout", product |-> 0, outcome |-> ""]
        /\ UNCHANGED <<stock, checkoutCart, paymentMethod, paymentStatus, createOrders,
                       built, assistantVars, dateVars, trackVars>>

\* navigate("/customer/checkout"): Checkout mounts and reads the cart stored
GoToCheckout ==
    /\ page = "customer"
    /\ page' = "checkout"
    /\ cart' = EmptyCart
    /\ checkoutCart' = LoadedCart(storage, user)
    /\ paymentMethod' = "online"
    /\ paymentStatus' = "pending"
    /\ lastOp' = [op |-> "checkout", product |-> 0, outcome |-> ""]
    /\ UNCHANGED <<user, storage, stock, createOrders, built, assistantVars, dateVars, trackVars>>

\* the payment tabs: setPaymentMethod
SelectPaymentMethod ==
    \E method \in {"cod", "online", "qr", "card"} :
        /\ page = "checkout"
        /\ method # paymentMethod
        /\ paymentMethod' = method
        /\ lastOp' = [op |-> "select", product |-> 0, outcome |-> ""]
        /\ UNCHANGED <<user, storage, page, cart, stock, checkoutCart, paymentStatus,
                       createOrders, built, assistantVars, dateVars, trackVars>>

\* what placeOrder does once /api/create-order has answered with success:
\* whether it completes the order, for the paymentStatus of the render
\* whose placeOrder is running
Completes(method, statusSeen, testMode, verified) ==
    \/ method = "cod"
    \/ method = "qr" /\ statusSeen = "success"
    \/ testMode
    \/ method \in {"card", "online"} /\ verified

\* what the backend and the payment window answered
Answer(paid, created, testMode, verified) ==
    IF ~paid THEN "payment failed"
    ELSE IF ~created THEN "order refused"
    ELSE IF testMode THEN "order created in test mode"
    ELSE IF verified THEN "order created, payment verified"
    ELSE "order created"

\* localStorage.removeItem("cart"); setCart({}); navigate(`/customer/success/...`)
OrderCompleted ==
    /\ storage' = RemoveItem(storage, PlainKey)
    /\ checkoutCart' = EmptyCart
    /\ page' = "success"

\* Checkout.placeOrder, started by the order button; created, testMode and
\* verified are the answers of the backend and of the payment window
PlaceOrder ==
    \E created \in BOOLEAN, testMode \in BOOLEAN, verified \in BOOLEAN :
        /\ page = "checkout"
        /\ DOMAIN checkoutCart # {}
        /\ paymentMethod = "qr" => paymentStatus = "success"
        /\ createOrders < MaxOrders
        /\ createOrders' = createOrders + 1
        /\ created => (testMode => ~verified)
        /\ ~created => (~testMode /\ ~verified)
        /\ lastOp' = [op |-> "placeOrder", product |-> 0, outcome |-> Answer(TRUE, created, testMode, verified)]
        /\ IF created /\ Completes(paymentMethod, paymentStatus, testMode, verified)
           THEN OrderCompleted
           ELSE UNCHANGED <<storage, checkoutCart, page>>
        /\ UNCHANGED <<user, cart, stock, paymentMethod, paymentStatus, built,
                       assistantVars, dateVars, trackVars>>

\* Checkout.processQRPayment, started from the QR tab.  It calls the
\* placeOrder of the render it was started in, whose paymentStatus is the
\* one of that render, not the one setPaymentStatus has just asked for.
ProcessQRPayment ==
    \E paid \in BOOLEAN, created \in BOOLEAN, testMode \in BOOLEAN :
        /\ page = "checkout"
        /\ paymentMethod = "qr"
        /\ createOrders < MaxOrders
        /\ ~paid => (~created /\ ~testMode)
        /\ ~created => ~testMode
        /\ paymentStatus' = IF paid THEN "success" ELSE "failed"
        /\ createOrders' = IF paid THEN createOrders + 1 ELSE createOrders
        /\ lastOp' = [op |-> "processQRPayment", product |-> 0, outcome |-> Answer(paid, created, testMode, FALSE)]
        /\ IF paid /\ created /\ Completes("qr", paymentStatus, testMode, FALSE)
           THEN OrderCompleted
           ELSE UNCHANGED <<storage, checkoutCart, page>>
        /\ UNCHANGED <<user, cart, stock, paymentMethod, built, assistantVars, dateVars, trackVars>>

\* CustomerApp with its cart, users coming and going
InitCart ==
    /\ ShopIdle
    /\ AssistantIdle
    /\ DateIdle
    /\ TrackIdle

NextCart ==
    \/ Login
    \/ OpenShop
    \/ LeaveShop
    \/ AddToCart
    \/ RemoveFromCart
    \/ BulkAddToCart
    \/ HandleLogout

SpecCart == InitCart /\ [][NextCart]_vars

\* one customer, logged in or not, from the shop to the checkout and back
InitCheckout ==
    /\ \E u \in {"", "a"} : user = u
    /\ storage = <<>> /\ page = "home"
    /\ cart = EmptyCart /\ stock = [p \in ProductIds |-> 1]
    /\ checkoutCart = EmptyCart /\ paymentMethod = "online" /\ paymentStatus = "pending"
    /\ createOrders = 0
    /\ built = [u \in Users |-> EmptyCart]
    /\ lastOp = NoOp
    /\ AssistantIdle
    /\ DateIdle
    /\ TrackIdle

NextCheckout ==
    \/ OpenShop
    \/ AddToCart
    \/ BulkAddToCart
    \/ GoToCheckout
    \/ SelectPaymentMethod
    \/ PlaceOrder
    \/ ProcessQRPayment

SpecCheckout == InitCheckout /\ [][NextCheckout]_vars

\* ---------------------------------------------------------------------------
\* OrderTracking: load(), the polling effect, the Refresh button
\* ---------------------------------------------------------------------------

MaxLoads == 3        \* the calls of load() followed

MaxMounts == 2       \* the times OrderTracking is mounted

MaxUpdates == 1      \* the updates an order receives at the backend

\* what /api/order-status answers for an order that has received v updates
StatusOf(v) ==
    IF v = 0 THEN "placed" ELSE IF v = 1 THEN "out_for_delivery" ELSE "delivered"

LocationOf(v) == IF v = 0 THEN <<>> ELSE <<12 + v, 77 + v>>

ItemsOf(o) == <<[product_id |-> o, quantity |-> 1]>>

NoAnswer == [kind |-> "none", version |-> 0]

\* fetch(`/api/order-status/${orderId}`) of a call of load()
Load(o, mount) ==
    [orderId |-> o, instance |-> mount, phase |-> "sent", answer |-> NoAnswer]

\* the route /customer/track/:orderId comes on show: the effect calls load()
OpenTracking ==
    /\ orderId = 0
    /\ instance < MaxMounts
    /\ Len(loads) < MaxLoads
    /\ \E o \in OrderIds :
        /\ orderId' = o
        /\ instance' = instance + 1
        /\ status' = Loading /\ location' = <<>> /\ orderItems' = <<>>
        /\ loads' = Append(loads, Load(o, instance + 1))
    /\ UNCHANGED <<courier, assistantVars, dateVars, shopVars>>

\* orderId changes while OrderTracking is on show: the effect clears the interval,
\* calls load() and sets the interval again; the state is kept
ChangeOrder ==
    /\ orderId # 0
    /\ Len(loads) < MaxLoads
    /\ \E o \in OrderIds \ {orderId} :
        /\ orderId' = o
        /\ loads' = Append(loads, Load(o, instance))
    /\ UNCHANGED <<instance, status, location, orderItems, courier,
                   assistantVars, dateVars, shopVars>>

\* navigate("/customer"): the effect clears the interval, the state is dropped
LeaveTracking ==
    /\ orderId # 0
    /\ orderId' = 0
    /\ status' = Loading /\ location' = <<>> /\ orderItems' = <<>>
    /\ UNCHANGED <<instance, loads, courier, assistantVars, dateVars, shopVars>>

\* setInterval(load, 5000) fires
Poll ==
    /\ orderId # 0
    /\ Len(loads) < MaxLoads
    /\ loads' = Append(loads, Load(orderId, instance))
    /\ UNCHANGED <<orderId, instance, status, location, orderItems, courier,
                   assistantVars, dateVars, shopVars>>

\* <Button onClick={load}>Refresh</Button>
Refresh ==
    /\ orderId # 0
    /\ Len(loads) < MaxLoads
    /\ loads' = Append(loads, Load(orderId, instance))
    /\ UNCHANGED <<orderId, instance, status, location, orderItems, courier,
                   assistantVars, dateVars, shopVars>>

\* the backend records an update of an order
CourierMoves ==
    /\ \E o \in OrderIds :
        /\ courier[o] < MaxUpdates
        /\ courier' = [courier EXCEPT ![o] = @ + 1]
    /\ UNCHANGED <<orderId, instance, status, location, orderItems, loads,
                   assistantVars, dateVars, shopVars>>

\* the backend answers a request with what it holds then, or with an error, or
\* the request fails
BackendAnswers ==
    /\ \E n \in DOMAIN loads :
        /\ loads[n].phase = "sent"
        /\ \E kind \in {"ok", "error", "throws"} :
            loads' = [loads EXCEPT ![n].phase = "answered",
                                   ![n].answer = [kind |-> kind,
                                                  version |-> IF kind = "ok"
                                                              THEN courier[loads[n].orderId]
                                                              ELSE 0]]
    /\ UNCHANGED <<orderId, instance, status, location, orderItems, courier,
                   assistantVars, dateVars, shopVars>>

\* the setters of a component that was taken down change nothing
Mounted(n) == orderId # 0 /\ loads[n].instance = instance

\* load() goes on after its awaits
LoadResumes ==
    /\ \E n \in DOMAIN loads :
        /\ loads[n].phase = "answered"
        /\ loads' = [loads EXCEPT ![n].phase = "applied"]
        /\ IF ~Mounted(n)
           THEN UNCHANGED <<status, location, orderItems>>
           ELSE IF loads[n].answer.kind = "ok"
           THEN /\ status' = StatusOf(loads[n].answer.version)
                /\ location' = LocationOf(loads[n].answer.version)
                /\ orderItems' = ItemsOf(loads[n].orderId)
           ELSE /\ status' = (IF loads[n].answer.kind = "error"
                              THEN "Not found" ELSE "Error fetching status")
                /\ UNCHANGED <<location, orderItems>>
    /\ UNCHANGED <<orderId, instance, courier, assistantVars, dateVars, shopVars>>

InitTrack ==
    /\ TrackIdle
    /\ AssistantIdle
    /\ DateIdle
    /\ ShopIdle

NextTrack ==
    \/ OpenTracking
    \/ ChangeOrder
    \/ LeaveTracking
    \/ Poll
    \/ Refresh
    \/ CourierMoves
    \/ BackendAnswers
    \/ LoadResumes

SpecTrack == InitTrack /\ [][NextTrack]_vars

(***************************************************************************)
(* What the claims are stated with.                                        *)
(***************************************************************************)
\* the handler has run
VoiceDone == voiceToasts # <<>>

ChatDone == chatRuns # <<>> /\ ~chatRuns[Len(chatRuns)].threw

Ids(items) == [i \in 1..Len(items) |-> items[i].productId]

Item(id, quantity) == [productId |-> id, quantity |-> quantity]

\* the fragments each parser cuts the utterance into
VoiceFragments == VoiceParts(utterance)

ChatFragments == ChatParts(utterance)

\* every fragment matches a product, and no two the same one
VoiceAllDifferent ==
    LET best == [i \in 1..Len(VoiceFragments) |-> VoiceBest(VoiceFragments[i], products)]
    IN  /\ \A i \in DOMAIN best : best[i] # <<>>
        /\ \A i, j \in DOMAIN best : i # j => best[i] # best[j]

ChatAllDifferent ==
    LET best == [i \in 1..Len(ChatFragments) |-> ChatBest(ChatFragments[i], products)]
    IN  /\ \A i \in DOMAIN best : best[i] # <<>>
        /\ \A i, j \in DOMAIN best : i # j => best[i] # best[j]

\* one item for each fragment: its product with its own quantity
VoicePairing ==
    voiceParsed = [i \in 1..Len(VoiceFragments) |->
                      Item(VoiceBest(VoiceFragments[i], products)[1],
                           VoiceQuantity(VoiceFragments[i]))]

ChatPairing ==
    /\ Len(parsed.items) = Len(ChatFragments)
    /\ Range(parsed.items) =
           {Item(ChatBest(ChatFragments[i], products)[1], ChatQuantity(ChatFragments[i])) :
               i \in 1..Len(ChatFragments)}

\* "Add 2 tomatoes and 3 bananas"
ExampleUtterance ==
    <<"A", "d", "d", " ", "2", " ", "t", "o", "m", "a", "t", "o", "e", "s",
      " ", "a", "n", "d", " ", "3", " ", "b", "a", "n", "a", "n", "a", "s">>

ExampleHolds ==
    (products = CatalogExample /\ utterance = ExampleUtterance) =>
        /\ VoiceDone => voiceParsed = <<Item(1, 2), Item(3, 3)>>
        /\ ChatDone => parsed.items = <<Item(1, 2), Item(3, 3)>>

VoiceOverlap(i, tokens) ==
    Cardinality(Range(VoiceTokenize(products[i].name)) \cap tokens)

ChatOverlap(i, tokens) ==
    Cardinality(Range(ChatTokenize(products[i].name)) \cap tokens)

\* the earliest product of the catalog among those of the top overlap, when
\* that overlap is not 0: <<id>>, else <<>>
VoiceTop(part) ==
    LET tokens == VoicePartTokens(part)
        top == {i \in 1..Len(products) :
                   /\ VoiceOverlap(i, tokens) > 0
                   /\ \A j \in 1..Len(products) :
                          VoiceOverlap(j, tokens) <= VoiceOverlap(i, tokens)}
    IN  IF top = {} THEN <<>> ELSE <<products[Min(top)].id>>

ChatTop(part) ==
    LET tokens == ChatPartTokens(part)
        top == {i \in 1..Len(products) :
                   /\ ChatOverlap(i, tokens) > 0
                   /\ \A j \in 1..Len(products) :
                          ChatOverlap(j, tokens) <= ChatOverlap(i, tokens)}
    IN  IF top = {} THEN <<>> ELSE <<products[Min(top)].id>>

RECURSIVE Flatten(_)
Flatten(ss) == IF ss = <<>> THEN <<>> ELSE Head(ss) \o Flatten(Tail(ss))

ChatUnmatched(part) == ChatTop(part) = <<>>

\* C2: the product either parser chooses for a fragment is the earliest of
\* the catalog among those whose name shares the most tokens with the
\* fragment (the size of the intersection of the two token sets), and a
\* fragment whose top score is 0 contributes no item.
C2_BestOverlapFirstInCatalog ==
    /\ VoiceDone =>
           Ids(voiceParsed) = Flatten([i \in 1..Len(VoiceFragments) |-> VoiceTop(VoiceFragments[i])])
    /\ ChatDone =>
           LET chosen == UNION {Range(ChatTop(ChatFragments[i])) : i \in 1..Len(ChatFragments)}
           IN  /\ Range(Ids(parsed.items)) \subseteq chosen
               /\ Len(parsed.items) =
                      IF Cardinality(chosen) < MaxItems THEN Cardinality(chosen) ELSE MaxItems
               /\ parsed.unavailable = SelectSeq(ChatFragments, ChatUnmatched)

\* "apples" against Green Apples (5) before Red Apples (2): a tie, the first wins
C2_Witness ==
    /\ products = CatalogShop /\ utterance = Apples
    /\ VoiceDone /\ ChatDone
    /\ VoiceOverlap(1, VoicePartTokens(utterance)) = VoiceOverlap(3, VoicePartTokens(utterance))
    /\ Ids(voiceParsed) = <<5>>
    /\ Ids(parsed.items) = <<5>>

\* C5: the list either call site hands to the cart holds at most 15 items,
\* and exactly 15 when the utterance has 20 fragments matching 20 different
\* products (and whenever more than 15 different products are matched).
C5_AtMostFifteenItems ==
    /\ \A c \in 1..Len(bulkAddCalls) : Len(bulkAddCalls[c].items) <= MaxItems
    /\ (VoiceDone /\ VoiceAllDifferent /\ Len(VoiceFragments) > MaxItems) =>
           \E c \in 1..Len(bulkAddCalls) :
               bulkAddCalls[c].from = "voice" /\ Len(bulkAddCalls[c].items) = MaxItems
    /\ (ChatDone /\ ChatAllDifferent /\ Len(ChatFragments) > MaxItems) =>
           \E c \in 1..Len(bulkAddCalls) :
               bulkAddCalls[c].from = "chat" /\ Len(bulkAddCalls[c].items) = MaxItems

\* both handlers have handed on the utterance of 20 fragments, 15 items each
C5_Witness ==
    /\ products = CatalogLong /\ utterance = LongUtterance(20)
    /\ Len(VoiceFragments) = 20 /\ VoiceAllDifferent
    /\ Len(ChatFragments) = 20 /\ ChatAllDifferent
    /\ Len(bulkAddCalls) = 2
    /\ \A c \in 1..2 : Len(bulkAddCalls[c].items) = 15

\* C3, as stated: every item either handler hands to the cart callback has
\* an integer quantity of at least 1.
C3_QuantityAtLeastOne ==
    \A c \in 1..Len(bulkAddCalls) : \A i \in 1..Len(bulkAddCalls[c].items) :
        /\ bulkAddCalls[c].items[i].quantity # NonNumeric
        /\ bulkAddCalls[c].items[i].quantity >= 1

RECURSIVE SumSeq(_)
SumSeq(ns) == IF ns = <<>> THEN 0 ELSE Head(ns) + SumSeq(Tail(ns))

\* the sum of the quantities of the fragments that match product id
VoiceSumFor(id) ==
    SumSeq([i \in 1..Len(VoiceFragments) |->
               IF VoiceBest(VoiceFragments[i], products) = <<id>>
               THEN VoiceQuantity(VoiceFragments[i]) ELSE 0])

ChatSumFor(id) ==
    SumSeq([i \in 1..Len(ChatFragments) |->
               IF ChatBest(ChatFragments[i], products) = <<id>>
               THEN ChatQuantity(ChatFragments[i]) ELSE 0])

NoRepeat(ids) == \A i, j \in 1..Len(ids) : i # j => ids[i] # ids[j]

\* C4, as stated: the result of either parser never holds two items of the
\* same product, and the quantity of each item is the sum of the quantities
\* of all the fragments that matched its product.
C4_OneItemPerProduct ==
    /\ VoiceDone =>
           /\ NoRepeat(Ids(voiceParsed))
           /\ \A i \in 1..Len(voiceParsed) :
                  voiceParsed[i].quantity = VoiceSumFor(voiceParsed[i].productId)
    /\ ChatDone =>
           /\ NoRepeat(Ids(parsed.items))
           /\ \A i \in 1..Len(parsed.items) :
                  parsed.items[i].quantity = ChatSumFor(parsed.items[i].productId)

\* ids with every id kept at its first place only
RECURSIVE Dedup(_)
Dedup(ids) ==
    IF ids = <<>> THEN <<>>
    ELSE LET front == Dedup(DropLast(ids, 1))
         IN  IF ids[Len(ids)] \in Range(front) THEN front ELSE Append(front, ids[Len(ids)])

FirstN(ids, n) == SubSeq(ids, 1, IF Len(ids) < n THEN Len(ids) ELSE n)

\* the products matched, in the order of the first fragment that matched each
VoiceDiscovery ==
    Dedup(Flatten([i \in 1..Len(VoiceFragments) |-> VoiceBest(VoiceFragments[i], products)]))

ChatDiscovery ==
    Dedup(Flatten([i \in 1..Len(ChatFragments) |-> ChatBest(ChatFragments[i], products)]))

\* C6, as stated: the items come in the order of discovery, whatever the
\* values of the product ids, and past 15 products the first 15 discovered
\* are the ones kept.
C6_DiscoveryOrder ==
    /\ VoiceDone => Dedup(Ids(multipleItems)) = FirstN(VoiceDiscovery, MaxItems)
    /\ ChatDone => Ids(parsed.items) = FirstN(ChatDiscovery, MaxItems)

\* C7, as stated: every fragment whose top score is 0 is in the list of
\* unmatched fragments returned to the caller, and an utterance none of whose
\* fragments matches a product gives an empty list of items.
C7_UnmatchedReported ==
    /\ ChatDone =>
           /\ \A i \in 1..Len(ChatFragments) :
                  ChatTop(ChatFragments[i]) = <<>> => ChatFragments[i] \in Range(parsed.unavailable)
           /\ (\A i \in 1..Len(ChatFragments) : ChatTop(ChatFragments[i]) = <<>>)
                  => parsed.items = <<>>
    /\ VoiceDone =>
           /\ \A i \in 1..Len(VoiceFragments) :
                  VoiceTop(VoiceFragments[i]) = <<>>
                      => VoiceFragments[i] \in Range(VoiceUnavailable(utterance, products))
           /\ (\A i \in 1..Len(VoiceFragments) : VoiceTop(VoiceFragments[i]) = <<>>)
                  => voiceParsed = <<>>

\* the words of a fragment as written: lower case, punctuation taken as space
RawTokens(part) == SelectSeq(SplitWs(ChatClean(toLowerCase(part))), NonEmpty)

IsQuantityWord(t) == t \in ChatQuantityWordSet

HasDigit(part) == \E i \in 1..Len(part) : IsDigit(part[i])

\* the value of the first numeral, and of the first of the words one..twelve
FirstNumeral(part) == parseInt(SelectSeq(RawTokens(part), AllDigits)[1])

FirstQuantityWord(part) ==
    IndexOf(chatQuantityWords, SelectSeq(RawTokens(part), IsQuantityWord)[1])

\* the utterance is one fragment, which the parser has matched to a product
VoiceSingle == VoiceDone /\ Len(VoiceFragments) = 1 /\ Len(voiceParsed) = 1

ChatSingle == ChatDone /\ Len(ChatFragments) = 1 /\ Len(parsed.items) = 1

HasNumeral(part) == SelectSeq(RawTokens(part), AllDigits) # <<>>

HasQuantityWord(part) == SelectSeq(RawTokens(part), IsQuantityWord) # <<>>

\* C8, as stated: a fragment with a numeral (of 1 or more) and a quantity
\* word gives the first numeral as the quantity, wherever the numeral stands,
\* in both parsers.
C8_NumeralBeforeWord ==
    (HasNumeral(utterance) /\ HasQuantityWord(utterance) /\ FirstNumeral(utterance) >= 1) =>
        /\ VoiceSingle => voiceParsed[1].quantity = FirstNumeral(utterance)
        /\ ChatSingle => parsed.items[1].quantity = FirstNumeral(utterance)

\* C9, as stated: a fragment without a numeral gives the value of its first
\* quantity word, in token order, for every word one..twelve, in both parsers.
C9_FirstQuantityWord ==
    (~HasDigit(utterance) /\ HasQuantityWord(utterance)) =>
        /\ VoiceSingle => voiceParsed[1].quantity = FirstQuantityWord(utterance)
        /\ ChatSingle => parsed.items[1].quantity = FirstQuantityWord(utterance)

\* C10, as stated: a fragment that matches a product and has neither a
\* numeral nor a quantity word gives the quantity 1, in both parsers.
C10_DefaultQuantityOne ==
    (~HasDigit(utterance) /\ ~HasQuantityWord(utterance)) =>
        /\ VoiceSingle => voiceParsed[1].quantity = 1
        /\ ChatSingle => parsed.items[1].quantity = 1

\* the tokens of the utterance, stop words removed, are numerals and quantity words
QuantityOrNumeral(t) == AllDigits(t) \/ IsQuantityWord(t)

OnlyQuantityTokens ==
    SelectSeq(ChatTokenize(utterance), QuantityOrNumeral) = ChatTokenize(utterance)

\* C11, as stated: an utterance whose only tokens are numerals or quantity
\* words has no product added to the cart by either call site, whatever the
\* names of the catalog.
C11_QuantityTokensMatchNothing == OnlyQuantityTokens => (addCalls = <<>> /\ bulkAddCalls = <<>>)

\* the whole words that separate fragments
SeparatorWords == {<<"a", "n", "d">>, <<"p", "l", "u", "s">>, <<"w", "i", "t", "h">>}

\* text[k..] starts with the whole word w, in any letter case
WholeWordAt(text, k, w) ==
    /\ k >= 1 /\ k + Len(w) - 1 <= Len(text)
    /\ toLowerCase(SubSeq(text, k, k + Len(w) - 1)) = w
    /\ (k = 1 \/ ~IsWordChar(text[k - 1]))
    /\ (k + Len(w) > Len(text) \/ ~IsWordChar(text[k + Len(w)]))

\* text[i] belongs to a separator: a comma, '&', '+', or one of the words
InSeparator(text, i) ==
    \/ text[i] \in {",", "&", "+"}
    \/ \E w \in SeparatorWords : \E k \in (i - Len(w) + 1)..i : WholeWordAt(text, k, w)

\* the fragments the separators cut text into, trimmed, the empty ones left out
Segments(text) ==
    LET starts == {i \in 1..Len(text) :
                      ~InSeparator(text, i) /\ (i = 1 \/ InSeparator(text, i - 1))}
        ends   == {i \in 1..Len(text) :
                      ~InSeparator(text, i) /\ (i = Len(text) \/ InSeparator(text, i + 1))}
        Nth(S, k) == CHOOSE x \in S : Cardinality({y \in S : y <= x}) = k
        pieces == [k \in 1..Cardinality(starts) |->
                      trim(SubSeq(text, Nth(starts, k), Nth(ends, k)))]
    IN  SelectSeq(pieces, NonEmpty)

\* C12, as stated: both parsers cut the utterance at every comma, '&', '+'
\* and whole word and, plus, with, whatever the letter case and the white
\* space around, and parse each trimmed fragment that is not empty on its own.
C12_Segmentation ==
    /\ VoiceDone =>
           /\ VoiceFragments = Segments(utterance)
           /\ voiceParsed =
                  Flatten([i \in 1..Len(Segments(utterance)) |->
                              VoiceItemOf(Segments(utterance)[i], products)])
    /\ ChatDone =>
           /\ ChatFragments = Segments(utterance)
           /\ parsed = ChatReturn(ChatForEach([aggregated |-> <<>>, unavailable |-> <<>>],
                                              Segments(utterance), products))

\* the same of the chat parser alone
C12_ChatSegmentation ==
    ChatDone =>
        /\ ChatFragments = Segments(utterance)
        /\ parsed = ChatReturn(ChatForEach([aggregated |-> <<>>, unavailable |-> <<>>],
                                           Segments(utterance), products))

\* singularization with tokens of three letters or fewer left as they are
GuardedSingularize(w) ==
    IF Len(w) <= 3 THEN w
    ELSE IF endsWith(w, <<"i", "e", "s">>) THEN Append(DropLast(w, 3), "y")
    ELSE IF endsWith(w, <<"e", "s">>) THEN DropLast(w, 2)
    ELSE IF endsWith(w, <<"s">>) THEN DropLast(w, 1)
    ELSE w

\* the texts the handlers tokenize: the utterance and the product names
TokenizedTexts == {utterance} \cup {products[i].name : i \in 1..Len(products)}

\* C13, as stated: every token of the fragments and of the product names is
\* singularized before the stop words are removed, a token of three letters
\* or fewer staying as it is, a longer one losing "ies" for "y", else "es",
\* else "s".
C13_Singularization ==
    /\ VoiceDone =>
           \A text \in TokenizedTexts :
               VoiceTokenize(text) =
                   SelectSeq(MapSeq(GuardedSingularize, SplitWs(VoiceClean(toLowerCase(text)))),
                             KeepToken)
    /\ ChatDone =>
           \A text \in TokenizedTexts :
               ChatTokenize(text) =
                   SelectSeq(MapSeq(GuardedSingularize, SplitWs(ChatClean(toLowerCase(text)))),
                             KeepToken)

OnlySeparators(text) == \A i \in 1..Len(text) : IsSpace(text[i]) \/ InSeparator(text, i)

NoLetters(text) == \A i \in 1..Len(text) : ~IsLower(text[i]) /\ ~IsUpper(text[i])

NothingAdded == bulkAddCalls = <<>> /\ addCalls = <<>>

\* C14, as stated: an utterance of separators and white space only, any
\* utterance against a catalog without entries, and an utterance without a
\* letter give an empty item list in both parsers, and nothing is added to
\* the cart.
C14_DegenerateInputs ==
    (OnlySeparators(utterance) \/ products = <<>> \/ NoLetters(utterance)) =>
        /\ voiceParsed = <<>> /\ multipleItems = <<>>
        /\ parsed.items = <<>>
        /\ NothingAdded

\* the same, the utterances of separators only left to the catalogs whose
\* names hold no separator word
C14_DegenerateExceptSeparatorNames ==
    ((OnlySeparators(utterance) /\ products # CatalogPlus) \/ products = <<>>
         \/ NoLetters(utterance)) =>
        /\ voiceParsed = <<>> /\ multipleItems = <<>>
        /\ parsed.items = <<>>
        /\ NothingAdded

HasName(p) == p.name # MissingName /\ p.name # <<>>

\* no call of a handler ended in an error
NoneThrew ==
    /\ \A i \in 1..Len(voiceRuns) : ~voiceRuns[i].threw
    /\ \A i \in 1..Len(chatRuns) : ~chatRuns[i].threw

\* the entries of the catalog that have a name, in their order
Named(catalog) == SelectSeq(catalog, HasName)

\* C15, as stated: no handler ends in an error, and an entry of the catalog
\* whose name is missing or empty is passed over: each parser returns what it
\* returns for the catalog without those entries.
C15_NamelessEntriesSkipped ==
    /\ NoneThrew
    /\ VoiceDone => voiceParsed = VoiceParseMultipleItems(utterance, Named(products))
    /\ ChatDone => parsed = ChatParseMultipleItems(utterance, Named(products))

\* the same for the catalogs whose entries all have a name, if an empty one
C15_EmptyNamesSkipped ==
    ~HasMissingName(products) =>
        /\ NoneThrew
        /\ VoiceDone => voiceParsed = VoiceParseMultipleItems(utterance, Named(products))
        /\ ChatDone => parsed = ChatParseMultipleItems(utterance, Named(products))

\* the calls of each handler all ended the same way, with the same lists
RunsAgree ==
    /\ \A i, j \in 1..Len(voiceRuns) : voiceRuns[i] = voiceRuns[j]
    /\ \A i, j \in 1..Len(chatRuns) : chatRuns[i] = chatRuns[j]

UtteranceTokens == VoiceQueryTokens(toLowerCase(utterance))

\* no token of a product name is a token of the utterance
NoNameMatch ==
    \A i \in 1..Len(products) :
        Range(VoiceTokenize(products[i].name)) \cap UtteranceTokens = {}

\* the places in the catalog of the products of a category
InCategory(category) == {i \in 1..Len(products) : products[i].category = category}

\* the voice assistant added one product by onAddToCart (quantity 1) in each
\* of its runs, every time the product with this id, and handed on no list
AddedOnly(id) ==
    /\ addCalls = [k \in 1..Len(voiceRuns) |-> id]
    /\ \A c \in 1..Len(bulkAddCalls) : bulkAddCalls[c].from # "voice"

VoiceAddedNothing ==
    /\ addCalls = <<>>
    /\ \A c \in 1..Len(bulkAddCalls) : bulkAddCalls[c].from # "voice"

\* C17, as stated: the voice assistant, given 'vegetables' and a catalog with
\* a product of category 'vegetables' and no product whose name matches,
\* adds exactly one product of that category, with quantity 1.
C17_VegetablesExample ==
    (VoiceDone /\ utterance = Vegetables /\ NoNameMatch
         /\ InCategory(<<"v", "e", "g", "e", "t", "a", "b", "l", "e", "s">>) # {}) =>
        \E i \in InCategory(<<"v", "e", "g", "e", "t", "a", "b", "l", "e", "s">>) :
            AddedOnly(products[i].id)

\* the category keywords and the category each one is mapped to
CategoryKeywords ==
    <<<<"v", "e", "g", "e", "t", "a", "b", "l", "e">>, <<"f", "r", "u", "i", "t">>,
      <<"d", "a", "i", "r", "y">>, <<"s", "t", "a", "p", "l", "e">>>>

CategoryOfKeyword ==
    <<<<"v", "e", "g", "e", "t", "a", "b", "l", "e", "s">>, <<"f", "r", "u", "i", "t", "s">>,
      <<"d", "a", "i", "r", "y">>, <<"s", "t", "a", "p", "l", "e", "s">>>>

\* the keywords among the tokens of the utterance
KeywordsSaid == {k \in 1..Len(CategoryKeywords) : CategoryKeywords[k] \in UtteranceTokens}

C18_WitnessNoEntry ==
    /\ products = CatalogExample
    /\ utterance = <<"d", "a", "i", "r", "y">>
    /\ VoiceAddedNothing
    /\ voiceToasts = <<"Items Not Found">>

\* the number of different products the chat parser matched, before its cut
ChatMatched ==
    Len(ObjectEntries(ChatForEach([aggregated |-> <<>>, unavailable |-> <<>>],
                                  ChatFragments, products).aggregated))

\* C19, as stated: whenever a parse matches more than 15 different products,
\* so that items are dropped, a warning is shown, by the voice assistant and
\* by the chat handler alike.
C19_TruncationSignalled ==
    /\ (VoiceDone /\ Len(voiceParsed) > MaxItems) => "Too many items" \in Range(voiceToasts)
    /\ (ChatDone /\ ChatMatched > MaxItems) =>
           \E t \in Range(chatToasts) :
               t \notin {"AI Assistant Processing", "Some items not available",
                         "Multiple Items Added", "Item Added", "Items Not Available"}

\* the half of C19 that is about the voice assistant
C19_VoiceTruncationSignalled ==
    (VoiceDone /\ Len(voiceParsed) > MaxItems) =>
        /\ "Too many items" \in Range(voiceToasts)
        /\ Len(multipleItems) = MaxItems

\* C20, as stated: 'I need dairy products', said to a catalog with a product
\* of category 'dairy' and no product whose name matches, adds one dairy
\* product to the cart.
C20_NeedDairyProducts ==
    (VoiceDone /\ utterance = NeedDairyProducts /\ NoNameMatch
         /\ InCategory(<<"d", "a", "i", "r", "y">>) # {}) =>
        \E i \in InCategory(<<"d", "a", "i", "r", "y">>) : AddedOnly(products[i].id)

\* the same command without the word 'I': two tokens, and the fallback acts
C20_DairyProducts ==
    (VoiceDone /\ utterance = <<"d", "a", "i", "r", "y", " ", "p", "r", "o", "d", "u", "c", "t", "s">> /\ NoNameMatch
         /\ InCategory(<<"d", "a", "i", "r", "y">>) # {}) =>
        \E i \in InCategory(<<"d", "a", "i", "r", "y">>) : AddedOnly(products[i].id)

\* the voice assistant handed on, in one list, a product of each of the two
\* categories with the two quantities, and added nothing else
AddedOfCategories(c1, q1, c2, q2) ==
    /\ addCalls = <<>>
    /\ \E c \in 1..Len(bulkAddCalls), i \in InCategory(c1), j \in InCategory(c2) :
           /\ bulkAddCalls[c].from = "voice"
           /\ Range(bulkAddCalls[c].items) =
                  {Item(products[i].id, q1), Item(products[j].id, q2)}

\* C21, as stated: 'Get 3 vegetables and 2 fruits', said to a catalog with
\* products of both categories and no product whose name matches, adds one
\* product of category vegetables with quantity 3 and one of category fruits
\* with quantity 2.
C21_CategoriesWithQuantities ==
    (VoiceDone /\ utterance = GetVegetablesAndFruits /\ NoNameMatch
         /\ InCategory(<<"v", "e", "g", "e", "t", "a", "b", "l", "e", "s">>) # {}
         /\ InCategory(<<"f", "r", "u", "i", "t", "s">>) # {}) =>
        AddedOfCategories(<<"v", "e", "g", "e", "t", "a", "b", "l", "e", "s">>, 3,
                          <<"f", "r", "u", "i", "t", "s">>, 2)

\* the fields of the wall clock of India at an instant: UTC plus 5 h 30 min
IndiaWallClock(d) ==
    LET local == d + 5 * Hour + 30 * Minute
        civil == CivilFromDays(EpochDay + local \div Day)
    IN  [day |-> civil.day, month |-> civil.month, year |-> civil.year,
         hour |-> (local % Day) \div Hour, minute |-> (local % Hour) \div Minute,
         second |-> (local % Minute) \div Second]

\* the time from the instant formatted to the call
ElapsedMs == now - date

\* C22, as stated: relative(d) tells the time elapsed from d to now: d
\* exactly h hours before now, 1 <= h < 24, gives 'h hour(s) ago', d exactly
\* m minutes before now, 1 <= m < 60, gives 'm minute(s) ago', and 'Just now'
\* is given only when less than 60 seconds have elapsed.
C22_RelativeElapsed ==
    shown["relative"] # <<>> =>
        /\ \A h \in 1..23 : ElapsedMs = h * Hour =>
               shown["relative"] = <<h, IF h > 1 THEN "hours" ELSE "hour", "ago">>
        /\ \A m \in 1..59 : ElapsedMs = m * Minute =>
               shown["relative"] = <<m, IF m > 1 THEN "minutes" ELSE "minute", "ago">>
        /\ shown["relative"] = <<"Just now">> => ElapsedMs < 60 * Second

\* what relative does tell: the time elapsed less 5 h 30 min
C22_RelativeLessOffset ==
    shown["relative"] # <<>> =>
        shown["relative"] = RelativeOfMs(ElapsedMs - (5 * Hour + 30 * Minute))

\* C23, as stated: full, dateTime, time and orderTime show the wall clock
\* of India at the instant, the UTC time plus exactly 5 h 30 min, the
\* instant being shifted once.
C23_ShiftedOnce ==
    LET w == IndiaWallClock(date)
    IN  /\ shown["full"] # <<>> =>
               shown["full"] = <<w.day, w.month, w.year, w.hour, w.minute, w.second, "IST">>
        /\ shown["dateTime"] # <<>> =>
               shown["dateTime"] = <<w.day, w.month, w.year, w.hour, w.minute, "IST">>
        /\ shown["time"] # <<>> => shown["time"] = <<w.hour, w.minute, "IST">>
        /\ shown["orderTime"] # <<>> =>
               /\ shown["orderTime"][1] = w.day
               /\ shown["orderTime"][4] % 12 = w.hour % 12
               /\ shown["orderTime"][5] = w.minute

\* what the formatters do show: the wall clock of India 5 h 30 min later
C23_ShiftedTwice ==
    LET w == IndiaWallClock(date + 5 * Hour + 30 * Minute)
    IN  /\ shown["full"] # <<>> =>
               shown["full"] = <<w.day, w.month, w.year, w.hour, w.minute, w.second, "IST">>
        /\ shown["time"] # <<>> => shown["time"] = <<w.hour, w.minute, "IST">>
        /\ shown["orderTime"] # <<>> =>
               shown["orderTime"] = <<w.day, w.month, w.year,
                                      IF w.hour % 12 = 0 THEN 12 ELSE w.hour % 12,
                                      w.minute, IF w.hour < 12 THEN "am" ELSE "pm">>

\* the cart stored for the user stored holds nothing
PersistedCartEmpty == DOMAIN LoadedCart(storage, user) = {}

\* C24, as stated: once placeOrder has completed an order of a logged-in
\* user (cash on delivery, test mode or verified online payment), the cart
\* stored for that user is empty: the next mount of CustomerApp or Checkout
\* loads no item of the order.
C24_PersistedCartEmptied ==
    (page = "success" /\ user # "") => PersistedCartEmpty

\* what placeOrder does empty: the cart of Checkout, and the key "cart"
C24_CheckoutCartEmptied ==
    page = "success" => (checkoutCart = EmptyCart /\ PlainKey \notin DOMAIN storage)

\* C25, as stated: when processQRPayment is answered that the payment
\* succeeded and the order it then asks for is created (not in test mode),
\* the order is completed in that step: the cart is cleared and the success
\* page is on show, so that no second request can be sent from the button.
C25_QRCompletesInOneStep ==
    lastOp = [op |-> "processQRPayment", product |-> 0, outcome |-> "order created"] =>
        /\ page = "success"
        /\ checkoutCart = EmptyCart

\* what happens instead on the first payment of a visit: the order is
\* created, the cart stays, and with a cart that is not empty the button is
\* free for a second request
C25_FirstPaymentLeavesButton ==
    (lastOp = [op |-> "processQRPayment", product |-> 0, outcome |-> "order created"] /\ createOrders = 1) =>
        /\ page = "checkout"
        /\ checkoutCart = LoadedCart(storage, user)
        /\ paymentMethod = "qr" /\ paymentStatus = "success"

\* the count of product p is one more, every other entry is as it was
OneMore(before, after, p) ==
    /\ DOMAIN after = DOMAIN before \cup {p}
    /\ after[p] = (IF p \in DOMAIN before THEN before[p] ELSE 0) + 1
    /\ \A q \in DOMAIN before \ {p} : after[q] = before[q]

\* C26: addToCart changes the cart only on success: when the backend
\* refuses or the request throws, the cart, the carts stored and the product
\* list are as before; on success the count of one product is one more,
\* every other entry is unchanged, and the cart stored for the user is the
\* new cart.
C26_AddToCartOnlyOnSuccess ==
    [][lastOp'.op = "addToCart" =>
          IF lastOp'.outcome = "success"
          THEN /\ OneMore(cart, cart', lastOp'.product)
               /\ LoadedCart(storage', user') = cart'
          ELSE cart' = cart /\ storage' = storage /\ stock' = stock]_vars

\* user a has added product 1 to a cart that held one unit of product 2
C26_Witness ==
    /\ lastOp = [op |-> "addToCart", product |-> 1, outcome |-> "success"]
    /\ user = "a" /\ page = "customer"
    /\ DOMAIN cart = {1, 2} /\ cart[1] = 1 /\ cart[2] = 1
    /\ storage[CartKey("a")] = cart

\* an addToCart that the backend refused, the cart not empty
C26_WitnessRefused ==
    /\ lastOp = [op |-> "addToCart", product |-> 2, outcome |-> "refused"]
    /\ DOMAIN cart = {1}

\* the carts stored under the keys of the users and of the guest
UserKeys == {CartKey(u) : u \in Users \cup {""}}

StoredUnder(store, k) == IF k \in DOMAIN store THEN <<store[k]>> ELSE <<>>

\* C27: the cart of CustomerApp is, for a logged-in user, the cart that the
\* user's own operations amount to, and so is the cart stored under the
\* user's key; a cart is stored under a key only while the user of that key
\* is the user stored (nobody, for the guest's key); handleLogout empties
\* the cart of CustomerApp, leaves every user's stored cart as it was and
\* puts at most the empty cart under the guest's key.
C27_CartIsolation ==
    /\ [](\A u \in Users :
             /\ (page = "customer" /\ user = u) => cart = built[u]
             /\ CartKey(u) \in DOMAIN storage => storage[CartKey(u)] = built[u])
    /\ [][\A k \in UserKeys :
              StoredUnder(storage', k) # StoredUnder(storage, k) => k = CartKey(user')]_vars
    /\ [][lastOp'.op = "logout" =>
              /\ cart' = EmptyCart
              /\ \A u \in Users :
                     StoredUnder(storage', CartKey(u)) = StoredUnder(storage, CartKey(u))
              /\ StoredUnder(storage', CartKey("")) \in
                     {StoredUnder(storage, CartKey("")), <<EmptyCart>>}]_vars

\* user a is back after user b: both have built a cart, the two differ, and
\* the login has restored the cart of a
C27_Witness ==
    /\ lastOp = [op |-> "login", product |-> 0, outcome |-> "success"]
    /\ user = "a" /\ page = "customer"
    /\ built["a"] # EmptyCart /\ built["b"] # EmptyCart /\ built["a"] # built["b"]
    /\ cart = built["a"]
    /\ storage[CartKey("b")] = built["b"]

\* ---------------------------------------------------------------------------
\* C28: overlapping load() requests and late responses in OrderTracking
\* ---------------------------------------------------------------------------

\* the calls of load() of the component on show, for the order on show, that have
\* run to their end
AppliedHere ==
    {n \in DOMAIN loads : /\ loads[n].phase = "applied"
                          /\ Mounted(n)
                          /\ loads[n].orderId = orderId}

LastIssued(S) == CHOOSE n \in S : \A m \in S : m <= n

Shows(n) ==
    /\ status = StatusOf(loads[n].answer.version)
    /\ location = LocationOf(loads[n].answer.version)
    /\ orderItems = ItemsOf(loads[n].orderId)

\* the load() that resumes in this step
Resumes(n) ==
    /\ n \in DOMAIN loads
    /\ loads[n].phase = "answered"
    /\ loads'[n].phase = "applied"

\* C28, first half: once the responses of the requests of the order on show have
\* been applied, the status, location and items on show are those of the request
\* that was issued last among them (when that request was answered with data).
C28_LastIssuedShown ==
    AppliedHere # {} =>
        (loads[LastIssued(AppliedHere)].answer.kind = "ok" => Shows(LastIssued(AppliedHere)))

\* C28, second half: the response of a request that was issued for another orderId
\* than the one on show changes nothing of what is shown.
C28_PreviousOrderIgnored ==
    [][\A n \in 1..MaxLoads :
          (Resumes(n) /\ loads[n].orderId # orderId)
              => UNCHANGED <<status, location, orderItems>>]_vars

\* C28: under any interleaving of the interval, the Refresh button and the
\* responses, the display is that of the request issued later, and no response of
\* a request issued for the previous orderId changes it.
C28_LatestRequestWins == []C28_LastIssuedShown /\ C28_PreviousOrderIgnored

\* C28, what does hold: a response that arrives after OrderTracking was taken
\* down changes nothing, also when OrderTracking is on show again by then.
C28_UnmountedIgnored ==
    [][\A n \in 1..MaxLoads :
          (Resumes(n) /\ ~Mounted(n)) => UNCHANGED <<status, location, orderItems>>]_vars


\* ---------------------------------------------------------------------------
\* C29: the two parsers on their common domain
\* ---------------------------------------------------------------------------

\* the fragments of an utterance separated by ' and ' and ', ' only
DomainFragments ==
    SplitBySeparators(<<utterance>>, << <<" ", "a", "n", "d", " ">>, <<",", " ">> >>)

FragmentTokens(f) == SplitLit(f, <<" ">>)

IsAlphabetic(t) == t # <<>> /\ \A i \in 1..Len(t) : IsLower(t[i])

\* the places of a fragment that hold a quantity: a numeral, or a word one..ten
QuantityPlaces(f) ==
    {i \in 1..Len(FragmentTokens(f)) :
        AllDigits(FragmentTokens(f)[i]) \/ FragmentTokens(f)[i] \in VoiceQuantityWordSet}

\* a fragment of tokens purely alphabetic or purely numeric, one space between
\* them, with at most one quantity, a numeral being 1 or more and followed by a
\* space
DomainFragment(f) ==
    /\ f # <<>>
    /\ \A i \in 1..Len(FragmentTokens(f)) :
          /\ IsAlphabetic(FragmentTokens(f)[i]) \/ AllDigits(FragmentTokens(f)[i])
          /\ FragmentTokens(f)[i] \notin SeparatorWords
          /\ AllDigits(FragmentTokens(f)[i]) =>
                 (parseInt(FragmentTokens(f)[i]) >= 1 /\ i < Len(FragmentTokens(f)))
    /\ Cardinality(QuantityPlaces(f)) <= 1

\* the common domain of the two parsers
CommonDomain ==
    /\ utterance # <<>>
    /\ \A i \in 1..Len(DomainFragments) : DomainFragment(DomainFragments[i])
    /\ Len(DomainFragments) <= MaxItems
    /\ VoiceAllDifferent
    /\ ChatAllDifferent

\* C29, as stated: for every catalog and every utterance of the common domain
\* the voice parser and the chat parser return the same set of (productId,
\* quantity) pairs.
C29_ParsersAgree ==
    (VoiceDone /\ ChatDone /\ CommonDomain) => Range(voiceParsed) = Range(parsed.items)

\* the tokens one parser reads otherwise than the other: the quantity words only
\* the chat parser knows, and the name of a property every object inherits
OneSidedTokens == {<<"e", "l", "e", "v", "e", "n">>, <<"t", "w", "e", "l", "v", "e">>, inheritedKey}

\* C29, what does hold: the parsers return the same set on the common domain when
\* no token of the utterance is 'eleven', 'twelve' or 'constructor' and no name of
\* the catalog holds a digit.
C29_AgreeOnSharedVocabulary ==
    (/\ VoiceDone /\ ChatDone /\ CommonDomain
     /\ \A i \in 1..Len(DomainFragments) :
            Range(FragmentTokens(DomainFragments[i])) \cap OneSidedTokens = {}
     /\ \A i \in 1..Len(products) : \A k \in 1..Len(products[i].name) :
            ~IsDigit(products[i].name[k]))
        => Range(voiceParsed) = Range(parsed.items)

\* both parsers have parsed utterances of the common domain of two fragments
\* and agreed
C29_AgreeReached ==
    /\ VoiceDone /\ ChatDone /\ CommonDomain
    /\ Len(DomainFragments) = 2
    /\ Range(voiceParsed) = Range(parsed.items)
    /\ Cardinality(Range(voiceParsed)) = 2

====
